---- MODULE Spec2Model ----
(***************************************************************************)
(* Verification model of the Pteros selection engine:                      *)
(*   - Grid_searcher (src/src/core/grid_search.cpp): uniform-cell grid,    *)
(*     self / cross / within searches, periodic and non-periodic;          *)
(*   - Selection_parser (src/src/core/selection_parser.cpp): tokenizer,    *)
(*     recursive-descent grammar, optimization pass and AST evaluator.     *)
(* Coordinates, cutoffs and box extents are integers; a float comparison   *)
(* d <= cutoff is modelled exactly as d*d <= cutoff*cutoff and a float     *)
(* floor(a/b) as the integer floor division, so float rounding is outside  *)
(* the model.  Atom and point indices are 0-based as in the code.          *)
(***************************************************************************)
EXTENDS Integers, Sequences, FiniteSets, TLC

(***************************************************************************)
(* Bounds of the model                                                     *)
(***************************************************************************)
\* largest x coordinate of a point of the grid specification
MaxX == 3
\* largest y coordinate of a point of the grid specification
MaxY == 1
\* largest cutoff of the grid specification
MaxCutoff == 2
\* largest value std::thread::hardware_concurrency() takes
MaxThreads == 2
\* number of points of the point store of the grid specifications
NumPoints == 3

\* the largest x coordinate of an atom of the parser specification
MaxCoord == 2

\* the number of apply calls on one compiled query
MaxApplies == 2

(***************************************************************************)
(* Generic helpers                                                         *)
(***************************************************************************)
Min2(a, b) == IF a < b THEN a ELSE b
Max2(a, b) == IF a > b THEN a ELSE b

RECURSIVE Concat(_)
\* concatenation of a sequence of sequences
Concat(ss) == IF ss = <<>> THEN <<>> ELSE Head(ss) \o Concat(Tail(ss))

\* the sequence lo, lo+1, ..., hi (empty when hi < lo)
Range(lo, hi) == [i \in 1..(IF hi >= lo THEN hi - lo + 1 ELSE 0) |-> lo + i - 1]

\* number of positions of s holding x
Count(s, x) == Cardinality({i \in DOMAIN s : s[i] = x})

\* the set of elements of a sequence
Elems(s) == {s[i] : i \in DOMAIN s}

(***************************************************************************)
(* Point store geometry.  A point is <<x, y, z>>; a selection is its index *)
(* vector (0-based atom indices) over a coordinate array (1-based tuple).  *)
(***************************************************************************)
\* Selection::XYZ(i): coordinates of the i-th (0-based) point of a selection
XYZ(coord, sel, i) == coord[sel[i + 1] + 1]

\* Selection::Index(i): absolute index of the i-th point of a selection
Index(sel, i) == sel[i + 1]

\* Selection::minmax: per-axis minimum and maximum of the selected coordinates
minmax(coord, sel) ==
  LET pts == {coord[sel[i] + 1] : i \in DOMAIN sel}
      lo(a) == CHOOSE v \in {p[a] : p \in pts} : \A p \in pts : v <= p[a]
      hi(a) == CHOOSE v \in {p[a] : p \in pts} : \A p \in pts : v >= p[a]
  IN [min |-> <<lo(1), lo(2), lo(3)>>, max |-> <<hi(1), hi(2), hi(3)>>]

\* squared Euclidean distance, (p - q).squaredNorm()
squaredNorm(p, q) ==
  (p[1] - q[1]) * (p[1] - q[1]) + (p[2] - q[2]) * (p[2] - q[2])
    + (p[3] - q[3]) * (p[3] - q[3])

\* one axis of the minimum-image offset in an orthogonal box of extent ext
min_image_1d(a, b, ext) ==
  LET d == (a - b) % ext IN IF 2 * d > ext THEN ext - d ELSE d

\* Periodic_box::distance_squared for an orthogonal box with the given extents
distance_squared(ext, p, q) ==
  LET dx == min_image_1d(p[1], q[1], ext[1])
      dy == min_image_1d(p[2], q[2], ext[2])
      dz == min_image_1d(p[3], q[3], ext[3])
  IN dx * dx + dy * dy + dz * dz

\* Periodic_box::box_to_lab of an axis-aligned vector of an orthogonal box:
\* the lab projection of a grid vector along its own axis is its length
box_to_lab(d) == d

(***************************************************************************)
(* Grid_searcher.  A searcher g is a record                                *)
(*   [cutoff, is_periodic, abs_index, min, max, N, box]                    *)
(* with min, max the bounding region, N = <<NgridX, NgridY, NgridZ>> and   *)
(* box the extents of the (orthogonal) periodic box.                       *)
(***************************************************************************)

\* overlap_1d: intersection of the bars [a1,a2] and [b1,b2] as <<res1, res2>>
overlap_1d(a1, a2, b1, b2) ==
  IF a1 < b1
    THEN IF a2 < b1 THEN <<0, 0>>
         ELSE <<b1, IF a2 < b2 THEN a2 ELSE b2>>
    ELSE IF a1 > b2 THEN <<0, 0>>
         ELSE <<a1, IF a2 > b2 THEN b2 ELSE a2>>

RECURSIVE cbrt_floor(_, _, _)
\* floor(pow(num/den, 1/3)): the largest n >= m with n^3 * den <= num
cbrt_floor(num, den, m) ==
  IF (m + 1) * (m + 1) * (m + 1) * den <= num THEN cbrt_floor(num, den, m + 1) ELSE m

RECURSIVE grid_decrease(_, _, _)
\* while(box_to_lab(d) < cutoff && Ngrid > 1) --Ngrid, with d = ext / Ngrid
grid_decrease(ext, cutoff, n) ==
  IF box_to_lab(ext) < cutoff * n /\ n > 1 THEN grid_decrease(ext, cutoff, n - 1) ELSE n

\* an increase by at most one cell
grid_increase_once(ext, cutoff, n) ==
  IF box_to_lab(ext) > 2 * cutoff * n THEN n + 1 ELSE n

RECURSIVE grid_increase(_, _, _)
\* while(box_to_lab(d) > 2*cutoff) ++Ngrid, with d = ext / Ngrid
grid_increase(ext, cutoff, n) ==
  IF box_to_lab(ext) > 2 * cutoff * n THEN grid_increase(ext, cutoff, n + 1) ELSE n

\* Grid_searcher::set_grid_size: <<NgridX, NgridY, NgridZ>>
set_grid_size(min, max, Natoms, cutoff) ==
  LET e == [a \in 1..3 |-> max[a] - min[a]]
      n0(a, b, c) == LET v == cbrt_floor(Natoms * e[a] * e[a], e[b] * e[c], 0)
                     IN IF v = 0 THEN 1 ELSE v
      fin(a, n) == grid_increase(e[a], cutoff, grid_decrease(e[a], cutoff, n))
  IN <<fin(1, n0(1, 2, 3)), fin(2, n0(2, 1, 3)), fin(3, n0(3, 1, 2))>>

\* all cells of the grid in the order of the i, j, k loops
CellSeq(N) ==
  [c \in 1..(N[1] * N[2] * N[3]) |->
     <<(c - 1) \div (N[2] * N[3]), ((c - 1) \div N[3]) % N[2], (c - 1) % N[3]>>]

\* C++ remainder of a by n (n > 0): truncated towards zero
CRem(a, n) == IF a >= 0 THEN a % n ELSE -((-a) % n)

RECURSIVE wrap_cell(_, _)
\* while(n>=N || n<0) n>=0 ? n %= N : n = N + n%N
wrap_cell(n, Ngrid) ==
  IF n >= Ngrid \/ n < 0
    THEN wrap_cell(IF n >= 0 THEN CRem(n, Ngrid) ELSE Ngrid + CRem(n, Ngrid), Ngrid)
    ELSE n

\* the cell a coordinate falls in during populate_grid / populate_coor_grid;
\* <<-1,-1,-1>> stands for a point that is skipped (outside [0,Ngrid) on an axis)
cell_of(g, p) ==
  LET n(a) == (g.N[a] * (p[a] - g.min[a])) \div (g.max[a] - g.min[a])
  IN IF ~g.is_periodic
       THEN IF \E a \in 1..3 : n(a) < 0 \/ n(a) >= g.N[a]
              THEN <<-1, -1, -1>>
              ELSE <<n(1), n(2), n(3)>>
       ELSE <<wrap_cell(n(1), g.N[1]), wrap_cell(n(2), g.N[2]), wrap_cell(n(3), g.N[3])>>

\* Grid_searcher::populate_grid: cell -> local indices of sel, in insertion order
populate_grid(g, coord, sel) ==
  [c \in Elems(CellSeq(g.N)) |->
     SelectSeq(Range(0, Len(sel) - 1), LAMBDA i : cell_of(g, XYZ(coord, sel, i)) = c)]

\* candidate offsets b..e of the three nested neighbour loops, in loop order
OffsetSeq(b, e) ==
  LET w(a) == e[a] - b[a] + 1
  IN [c \in 1..(w(1) * w(2) * w(3)) |->
        <<b[1] + (c - 1) \div (w(2) * w(3)),
          b[2] + (((c - 1) \div w(3)) % w(2)),
          b[3] + ((c - 1) % w(3))>>]

\* get_nlist without the special case of a periodic axis with 2 cells: the
\* offsets run over -1..1 on every axis with more than one cell
get_nlist_full_range(g, c) ==
  IF ~g.is_periodic
    THEN LET cand == [o \in DOMAIN OffsetSeq(<<-1, -1, -1>>, <<1, 1, 1>>) |->
                        LET d == OffsetSeq(<<-1, -1, -1>>, <<1, 1, 1>>)[o]
                        IN <<c[1] + d[1], c[2] + d[2], c[3] + d[3]>>]
         IN SelectSeq(cand, LAMBDA x :
              /\ \A a \in 1..3 : x[a] >= 0 /\ x[a] < g.N[a]
              /\ x # c)
    ELSE LET b == [a \in 1..3 |-> IF g.N[a] > 1 THEN -1 ELSE 0]
             e == [a \in 1..3 |-> IF g.N[a] > 1 THEN 1 ELSE 0]
             wr(v, n) == IF v = n THEN 0 ELSE IF v = -1 THEN n - 1 ELSE v
             cand == [o \in DOMAIN OffsetSeq(b, e) |->
                        LET d == OffsetSeq(b, e)[o]
                        IN <<wr(c[1] + d[1], g.N[1]), wr(c[2] + d[2], g.N[2]),
                             wr(c[3] + d[3], g.N[3])>>]
         IN SelectSeq(cand, LAMBDA x : x # c)

\* Grid_searcher::get_nlist / get_nlist_local: neighbour cells of cell c
get_nlist(g, c) ==
  IF ~g.is_periodic
    THEN LET cand == [o \in DOMAIN OffsetSeq(<<-1, -1, -1>>, <<1, 1, 1>>) |->
                        LET d == OffsetSeq(<<-1, -1, -1>>, <<1, 1, 1>>)[o]
                        IN <<c[1] + d[1], c[2] + d[2], c[3] + d[3]>>]
         IN SelectSeq(cand, LAMBDA x :
              /\ \A a \in 1..3 : x[a] >= 0 /\ x[a] < g.N[a]
              /\ x # c)
    ELSE LET b == [a \in 1..3 |-> IF g.N[a] > 1 THEN -1 ELSE 0]
             e == [a \in 1..3 |-> IF g.N[a] > 2 THEN 1 ELSE 0]
             wr(v, n) == IF v = n THEN 0 ELSE IF v = -1 THEN n - 1 ELSE v
             cand == [o \in DOMAIN OffsetSeq(b, e) |->
                        LET d == OffsetSeq(b, e)[o]
                        IN <<wr(c[1] + d[1], g.N[1]), wr(c[2] + d[2], g.N[2]),
                             wr(c[3] + d[3], g.N[3])>>]
         IN SelectSeq(cand, LAMBDA x : x # c)

\* the test d <= cutoff of the pair searches (Euclidean or minimum image)
in_cutoff(g, p, q) ==
  IF ~g.is_periodic
    THEN squaredNorm(p, q) <= g.cutoff * g.cutoff
    ELSE distance_squared(g.box, p, q) <= g.cutoff * g.cutoff

\* the index a search reports for local index i of selection sel
out_index(g, sel, i) == IF g.abs_index THEN Index(sel, i) ELSE i


\* all <<s1[a], s2[b]>> in the order of two nested loops (a outer, b inner)
LoopPairs(s1, s2) ==
  [k \in 1..(Len(s1) * Len(s2)) |->
     <<s1[((k - 1) \div Len(s2)) + 1], s2[((k - 1) % Len(s2)) + 1]>>]

\* Grid_searcher::get_central_1: pairs inside one cell of grid1, c1 < c2
get_central_1(g, coord, sel, grid1, c) ==
  LET v == grid1[c]
      cand == SelectSeq(LoopPairs(Range(1, Len(v)), Range(1, Len(v))),
                        LAMBDA pr : pr[1] < pr[2])
      hit == SelectSeq(cand, LAMBDA pr :
               in_cutoff(g, XYZ(coord, sel, v[pr[1]]), XYZ(coord, sel, v[pr[2]])))
  IN [k \in DOMAIN hit |->
        <<out_index(g, sel, v[hit[k][1]]), out_index(g, sel, v[hit[k][2]])>>]

\* Grid_searcher::get_side_1: pairs between cells c1 and c2 of grid1
get_side_1(g, coord, sel, grid1, c1, c2) ==
  LET hit == SelectSeq(LoopPairs(grid1[c1], grid1[c2]), LAMBDA pr :
               in_cutoff(g, XYZ(coord, sel, pr[1]), XYZ(coord, sel, pr[2])))
  IN [k \in DOMAIN hit |->
        <<out_index(g, sel, hit[k][1]), out_index(g, sel, hit[k][2])>>]

\* Grid_searcher::get_central_2: pairs (sel1 in cell c, sel2 in cell c)
get_central_2(g, coord, sel1, sel2, grid1, grid2, c) ==
  LET hit == SelectSeq(LoopPairs(grid1[c], grid2[c]), LAMBDA pr :
               in_cutoff(g, XYZ(coord, sel1, pr[1]), XYZ(coord, sel2, pr[2])))
  IN [k \in DOMAIN hit |->
        <<out_index(g, sel1, hit[k][1]), out_index(g, sel2, hit[k][2])>>]

\* first phase of get_side_2: sel1 in cell c1 against sel2 in cell c2
get_side_2_phase1(g, coord, sel1, sel2, grid1, grid2, c1, c2) ==
  LET hit == SelectSeq(LoopPairs(grid1[c1], grid2[c2]), LAMBDA pr :
               in_cutoff(g, XYZ(coord, sel1, pr[1]), XYZ(coord, sel2, pr[2])))
  IN [k \in DOMAIN hit |->
        <<out_index(g, sel1, hit[k][1]), out_index(g, sel2, hit[k][2])>>]

\* second phase of get_side_2: sel2 in cell c1 against sel1 in cell c2;
\* pair(1) is the sel2 index and pair(0) the sel1 index ("ordered pair!")
get_side_2_phase2(g, coord, sel1, sel2, grid1, grid2, c1, c2) ==
  LET hit == SelectSeq(LoopPairs(grid2[c1], grid1[c2]), LAMBDA pr :
               in_cutoff(g, XYZ(coord, sel2, pr[1]), XYZ(coord, sel1, pr[2])))
  IN [k \in DOMAIN hit |->
        <<out_index(g, sel1, hit[k][2]), out_index(g, sel2, hit[k][1])>>]

\* Grid_searcher::get_side_2
get_side_2(g, coord, sel1, sel2, grid1, grid2, c1, c2) ==
  get_side_2_phase1(g, coord, sel1, sel2, grid1, grid2, c1, c2)
    \o get_side_2_phase2(g, coord, sel1, sel2, grid1, grid2, c1, c2)

\* the cells a worker scans: those with b <= cell[dim] < e, in loop order
part_cells(N, dim, b, e) == SelectSeq(CellSeq(N), LAMBDA c : c[dim] >= b /\ c[dim] < e)

\* part_neighbours without the visited array: a neighbour inside the part is
\* compared from both sides
part_neighbours_no_visited(g, c, dim, b, e, visited) ==
  SelectSeq(get_nlist(g, c), LAMBDA n :
    IF n[dim] < b THEN FALSE ELSE TRUE)

\* part_neighbours without the test for a neighbour "at left" of the part:
\* such a neighbour is compared like one in the halo
part_neighbours_left_compared(g, c, dim, b, e, visited) ==
  SelectSeq(get_nlist(g, c), LAMBDA n :
    IF n[dim] >= b /\ n[dim] < e THEN n \notin visited
    ELSE TRUE)

\* the neighbours of a cell that do_part1 / do_part2 compare with it: one "at
\* left" of the part is ignored, one inside the part is compared unless it is
\* visited, one in the halo is always compared
part_neighbours(g, c, dim, b, e, visited) ==
  SelectSeq(get_nlist(g, c), LAMBDA n :
    IF n[dim] < b THEN FALSE
    ELSE IF n[dim] >= b /\ n[dim] < e THEN n \notin visited
    ELSE TRUE)

RECURSIVE do_part1(_, _, _, _, _, _, _, _, _)
\* Grid_searcher::do_part1 over the cells todo (the cells of the part still to
\* scan); visited holds the cells of this part already scanned.  The serial
\* branch of do_search is the same scan over the whole grid (b = 0, e = N[dim]).
do_part1(g, coord, sel, grid1, dim, b, e, todo, visited) ==
  IF todo = <<>> THEN <<>>
  ELSE LET c == Head(todo)
           vis == visited \cup {c}
           nb == part_neighbours(g, c, dim, b, e, vis)
       IN get_central_1(g, coord, sel, grid1, c)
            \o Concat([k \in DOMAIN nb |-> get_side_1(g, coord, sel, grid1, c, nb[k])])
            \o do_part1(g, coord, sel, grid1, dim, b, e, Tail(todo), vis)

RECURSIVE do_part2(_, _, _, _, _, _, _, _, _, _, _)
\* Grid_searcher::do_part2, and the serial branch of the two-selection do_search
do_part2(g, coord, sel1, sel2, grid1, grid2, dim, b, e, todo, visited) ==
  IF todo = <<>> THEN <<>>
  ELSE LET c == Head(todo)
           vis == visited \cup {c}
           nb == part_neighbours(g, c, dim, b, e, vis)
       IN get_central_2(g, coord, sel1, sel2, grid1, grid2, c)
            \o Concat([k \in DOMAIN nb |->
                         get_side_2(g, coord, sel1, sel2, grid1, grid2, c, nb[k])])
            \o do_part2(g, coord, sel1, sel2, grid1, grid2, dim, b, e, Tail(todo), vis)

\* dims.maxCoeff(&max_dim): the first axis holding the largest cell count
max_dim(N) == CHOOSE a \in 1..3 : (\A b \in 1..3 : N[a] >= N[b]) /\ (\A b \in 1..(a - 1) : N[b] < N[a])

\* number of worker threads: min(max_N, hardware_concurrency())
num_threads(N, hw) == Min2(N[max_dim(N)], hw)

\* the worker ranges <<b[i], e[i]>>, i = 1..nt, along the longest axis
thread_parts(n, nt) ==
  [i \in 1..nt |->
     <<(i - 1) * (n \div nt), IF i < nt THEN i * (n \div nt) ELSE n>>]

\* Grid_searcher::do_search (one selection): the pair list bon
do_search_1(g, coord, sel, grid1, hw) ==
  LET nt == num_threads(g.N, hw)
      dim == max_dim(g.N)
  IN IF nt = 1
       THEN do_part1(g, coord, sel, grid1, dim, 0, g.N[dim], CellSeq(g.N), {})
       ELSE LET parts == thread_parts(g.N[dim], nt)
            IN Concat([i \in 1..nt |->
                 do_part1(g, coord, sel, grid1, dim, parts[i][1], parts[i][2],
                          part_cells(g.N, dim, parts[i][1], parts[i][2]), {})])

\* Grid_searcher::do_search (two selections): the pair list bon
do_search_2(g, coord, sel1, sel2, grid1, grid2, hw) ==
  LET nt == num_threads(g.N, hw)
      dim == max_dim(g.N)
  IN IF nt = 1
       THEN do_part2(g, coord, sel1, sel2, grid1, grid2, dim, 0, g.N[dim], CellSeq(g.N), {})
       ELSE LET parts == thread_parts(g.N[dim], nt)
            IN Concat([i \in 1..nt |->
                 do_part2(g, coord, sel1, sel2, grid1, grid2, dim, parts[i][1], parts[i][2],
                          part_cells(g.N, dim, parts[i][1], parts[i][2]), {})])

\* Grid_searcher::create_grid: the searcher after sizing the grid of one selection
create_grid(cutoff, periodic, abs_index, box, coord, sel) ==
  LET mm == minmax(coord, sel)
      lo == IF ~periodic THEN [a \in 1..3 |-> mm.min[a] - cutoff] ELSE <<0, 0, 0>>
      hi == IF ~periodic THEN [a \in 1..3 |-> mm.max[a] + cutoff] ELSE box
  IN [cutoff |-> cutoff, is_periodic |-> periodic, abs_index |-> abs_index, box |-> box,
      min |-> lo, max |-> hi, N |-> set_grid_size(lo, hi, Len(sel), cutoff)]

\* the common bounding region of two halo-padded selections: per axis
\* overlap_1d(min1, max1, min2, max2), as used by create_grid2 and by the
\* within constructor
overlap_box(cutoff, coord, sel1, sel2) ==
  LET m1 == minmax(coord, sel1)
      m2 == minmax(coord, sel2)
  IN [a \in 1..3 |-> overlap_1d(m1.min[a] - cutoff, m1.max[a] + cutoff,
                                m2.min[a] - cutoff, m2.max[a] + cutoff)]

\* "if(max(i)==min(i)) return": the constructor leaves on the first such axis
no_overlap(ov) == \E a \in 1..3 : ov[a][1] = ov[a][2]

\* Grid_searcher::create_grid2: the searcher after sizing the common grid
\* (only reached past the no-overlap return)
create_grid2(cutoff, periodic, abs_index, box, coord, sel1, sel2) ==
  LET ov == overlap_box(cutoff, coord, sel1, sel2)
      lo == IF ~periodic THEN [a \in 1..3 |-> ov[a][1]] ELSE <<0, 0, 0>>
      hi == IF ~periodic THEN [a \in 1..3 |-> ov[a][2]] ELSE box
  IN [cutoff |-> cutoff, is_periodic |-> periodic, abs_index |-> abs_index, box |-> box,
      min |-> lo, max |-> hi,
      N |-> set_grid_size(lo, hi, Len(sel1) + Len(sel2), cutoff)]


(***************************************************************************)
(* Standard-library algorithms, as the merge loops every implementation    *)
(* runs (so that an unsorted argument gives what the code gives)           *)
(***************************************************************************)
RECURSIVE insert_sorted(_, _)
insert_sorted(s, x) ==
  IF s = <<>> THEN <<x>>
  ELSE IF x <= Head(s) THEN <<x>> \o s
  ELSE <<Head(s)>> \o insert_sorted(Tail(s), x)

RECURSIVE sort(_)
\* std::sort on a vector<int>: the ascending arrangement of the same elements
sort(s) == IF s = <<>> THEN <<>> ELSE insert_sorted(sort(Tail(s)), Head(s))

RECURSIVE unique(_)
\* std::unique followed by the resize: consecutive equal elements collapse
unique(s) ==
  IF Len(s) < 2 THEN s
  ELSE IF s[1] = s[2] THEN unique(Tail(s))
  ELSE <<s[1]>> \o unique(Tail(s))

RECURSIVE set_intersection(_, _)
\* std::set_intersection(a, b, back_inserter(result))
set_intersection(a, b) ==
  IF a = <<>> \/ b = <<>> THEN <<>>
  ELSE IF Head(a) < Head(b) THEN set_intersection(Tail(a), b)
  ELSE IF Head(b) < Head(a) THEN set_intersection(a, Tail(b))
  ELSE <<Head(a)>> \o set_intersection(Tail(a), Tail(b))

RECURSIVE set_union(_, _)
\* std::set_union(a, b, back_inserter(result))
set_union(a, b) ==
  IF a = <<>> THEN b
  ELSE IF b = <<>> THEN a
  ELSE IF Head(a) < Head(b) THEN <<Head(a)>> \o set_union(Tail(a), b)
  ELSE IF Head(b) < Head(a) THEN <<Head(b)>> \o set_union(a, Tail(b))
  ELSE <<Head(a)>> \o set_union(Tail(a), Tail(b))

RECURSIVE set_difference(_, _)
\* std::set_difference(a, b, back_inserter(result))
set_difference(a, b) ==
  IF a = <<>> THEN <<>>
  ELSE IF b = <<>> THEN a
  ELSE IF Head(a) < Head(b) THEN <<Head(a)>> \o set_difference(Tail(a), b)
  ELSE IF Head(b) < Head(a) THEN set_difference(a, Tail(b))
  ELSE set_difference(Tail(a), Tail(b))

(***************************************************************************)
(* Within-distance-of-a-set search                                         *)
(***************************************************************************)
\* search_in_pair_of_cells: the source points of cell sc that get their used
\* flag set against the target points of cell tc (those not yet used that have
\* a target point of tc within the cutoff)
search_in_pair_of_cells(g, coord, src, target, grid1, grid2, sc, tc, used) ==
  {ind \in Elems(grid1[sc]) :
     /\ ind \notin used
     /\ \E t \in Elems(grid2[tc]) :
          IF g.is_periodic
            THEN distance_squared(g.box, XYZ(coord, target, t), XYZ(coord, src, ind))
                   <= g.cutoff * g.cutoff
            ELSE squaredNorm(XYZ(coord, target, t), XYZ(coord, src, ind))
                   <= g.cutoff * g.cutoff}

RECURSIVE scan_pairs(_, _, _, _, _, _, _, _, _)
\* the central cell and then each neighbour cell of the list tcs against sc
scan_pairs(g, coord, src, target, grid1, grid2, sc, tcs, used) ==
  IF tcs = <<>> THEN used
  ELSE scan_pairs(g, coord, src, target, grid1, grid2, sc, Tail(tcs),
         used \cup search_in_pair_of_cells(g, coord, src, target, grid1, grid2,
                                           sc, Head(tcs), used))

RECURSIVE do_part_within_fast(_, _, _, _, _, _, _, _)
\* Grid_searcher::do_part_within_fast over the cells todo: the used flags
do_part_within_fast(g, coord, src, target, grid1, grid2, todo, used) ==
  IF todo = <<>> THEN used
  ELSE do_part_within_fast(g, coord, src, target, grid1, grid2, Tail(todo),
         scan_pairs(g, coord, src, target, grid1, grid2, Head(todo),
                    <<Head(todo)>> \o get_nlist(g, Head(todo)), used))

\* the searcher of the within constructor (past the no-overlap return)
within_grid(cutoff, periodic, abs_index, box, coord, src, target) ==
  LET ov == overlap_box(cutoff, coord, src, target)
      lo == IF ~periodic THEN [a \in 1..3 |-> ov[a][1]] ELSE <<0, 0, 0>>
      hi == IF ~periodic THEN [a \in 1..3 |-> ov[a][2]] ELSE box
  IN [cutoff |-> cutoff, is_periodic |-> periodic, abs_index |-> abs_index, box |-> box,
      min |-> lo, max |-> hi,
      N |-> set_grid_size(lo, hi, Max2(Len(src), Len(target)), cutoff)]

\* conversion of the used flags to the result: indices, include_self handling
used_to_result(g, src, target, used, include_self) ==
  LET flagged == SelectSeq(Range(0, Len(src) - 1), LAMBDA i : i \in used)
      bon0 == [k \in DOMAIN flagged |-> out_index(g, src, flagged[k])]
      bon1 == IF include_self THEN bon0 \o target ELSE bon0
      bon2 == IF include_self THEN unique(sort(bon1)) ELSE sort(bon1)
  IN IF include_self THEN bon2 ELSE set_difference(bon2, target)

\* Grid_searcher::Grid_searcher(d, src, target, bon, include_self,
\* absolute_index, periodic): the content of bon on return.  The worker
\* threads set disjoint flags and only false -> true, so the flags after the
\* join are those of one scan over all cells.
within_constructor(cutoff, periodic, abs_index, include_self, box, coord, src, target, bon) ==
  IF ~periodic /\ no_overlap(overlap_box(cutoff, coord, src, target))
    THEN bon
    ELSE LET g == within_grid(cutoff, periodic, abs_index, box, coord, src, target)
             grid1 == populate_grid(g, coord, src)
             grid2 == populate_grid(g, coord, target)
             used == do_part_within_fast(g, coord, src, target, grid1, grid2,
                                         CellSeq(g.N), {})
         IN used_to_result(g, src, target, used, include_self)


(***************************************************************************)
(* Query for the neighbours of a point                                     *)
(***************************************************************************)
\* the cell search_within(coord, bon) computes for the query point p;
\* <<-1,-1,-1>> stands for the return of the non-periodic variant for a point
\* that does not fit
query_cell(g, p) ==
  LET n(a) == ((g.N[a] - 1) * (p[a] - g.min[a])) \div (g.max[a] - g.min[a])
  IN IF ~g.is_periodic
       THEN IF \E a \in 1..3 : n(a) < 0 \/ n(a) >= g.N[a]
              THEN <<-1, -1, -1>>
              ELSE <<n(1), n(2), n(3)>>
       ELSE <<wrap_cell(n(1), g.N[1]), wrap_cell(n(2), g.N[2]), wrap_cell(n(3), g.N[3])>>

\* Grid_searcher::search_within(coord, bon): the content of bon on return
search_within_point(g, coord, sel, grid1, p) ==
  LET c == query_cell(g, p)
      cells == get_nlist(g, c) \o <<c>>
      close(m) == SelectSeq(grid1[m], LAMBDA i : in_cutoff(g, XYZ(coord, sel, i), p))
  IN IF c = <<-1, -1, -1>> THEN <<>>
     ELSE Concat([k \in DOMAIN cells |->
            [j \in DOMAIN close(cells[k]) |-> out_index(g, sel, close(cells[k])[j])]])

\* the visits of the loops of search_within(target, bon): <<cell of grid2,
\* cell of grid1, n2, n1>> (n2, n1 1-based) in loop order
within_visits(g, grid1, grid2) ==
  LET cells == CellSeq(g.N)
      nb(c) == get_nlist(g, c) \o <<c>>
      of_pair(c, m) ==
        [k \in 1..(Len(grid2[c]) * Len(grid1[m])) |->
           <<c, m, ((k - 1) \div Len(grid1[m])) + 1, ((k - 1) % Len(grid1[m])) + 1>>]
      of_cell(c) ==
        IF grid2[c] = <<>> THEN <<>>
        ELSE Concat([j \in DOMAIN nb(c) |-> of_pair(c, nb(c)[j])])
  IN Concat([i \in DOMAIN cells |-> of_cell(cells[i])])

RECURSIVE mark_found(_, _, _, _, _, _, _)
\* the body of the loops: a source point marked as used (negative) is skipped;
\* a point within the cutoff is reported and marked by negating its entry
mark_found(g, coord, sel, target, grid2, visits, st) ==
  IF visits = <<>> THEN st
  ELSE LET v == Head(visits)
           e == st.grid1[v[2]][v[4]]
       IN mark_found(g, coord, sel, target, grid2, Tail(visits),
            IF e < 0 THEN st
            ELSE IF in_cutoff(g, XYZ(coord, sel, e), XYZ(coord, target, grid2[v[1]][v[3]]))
              THEN [grid1 |-> [st.grid1 EXCEPT ![v[2]][v[4]] = -e],
                    bon |-> Append(st.bon, out_index(g, sel, e))]
            ELSE st)

\* a grid that keeps its marks
restore_none(grid1) == grid1

\* "Restore grid1 for possible later searches": every entry becomes abs(entry)
restore_grid(grid1) ==
  [c \in DOMAIN grid1 |->
     [n \in DOMAIN grid1[c] |-> IF grid1[c][n] < 0 THEN -grid1[c][n] ELSE grid1[c][n]]]

\* Grid_searcher::search_within(target, bon, include_self): [grid1, bon], the
\* source grid and the content of bon on return
search_within_target(g, coord, sel, grid1, target, include_self) ==
  LET grid2 == populate_grid(g, coord, target)
      found == mark_found(g, coord, sel, target, grid2, within_visits(g, grid1, grid2),
                          [grid1 |-> grid1, bon |-> <<>>])
      all == unique(sort(IF include_self THEN found.bon \o target ELSE found.bon))
  IN [grid1 |-> restore_grid(found.grid1),
      bon |-> IF include_self THEN all ELSE set_difference(all, target)]


(***************************************************************************)
(* Selection language: characters and tokens.  A string is a sequence of   *)
(* one-character strings; NUL is the character 0 that at() and s[size()]   *)
(* give.  An AST node is [code, children, precomputed]; a child is a node  *)
(* or a literal [lit, v] (the int, float, string and bool alternatives of  *)
(* ast_element).  A float is the fraction <<numerator, denominator>>.      *)
(***************************************************************************)
NUL == ""

UpperCase == <<"A", "B", "C", "D", "E", "F", "G", "H", "I", "J", "K", "L", "M", "N", "O", "P",
              "Q", "R", "S", "T", "U", "V", "W", "X", "Y", "Z">>

LowerCase == <<"a", "b", "c", "d", "e", "f", "g", "h", "i", "j", "k", "l", "m", "n", "o", "p",
              "q", "r", "s", "t", "u", "v", "w", "x", "y", "z">>

Digits == <<"0", "1", "2", "3", "4", "5", "6", "7", "8", "9">>

isspace(c) == c \in {" ", "\t", "\n"}

isdigit(c) == \E i \in DOMAIN Digits : Digits[i] = c

isalnum(c) ==
  \/ isdigit(c)
  \/ \E i \in DOMAIN UpperCase : UpperCase[i] = c \/ LowerCase[i] = c

\* the value of a digit character
digit_value(c) == (CHOOSE i \in DOMAIN Digits : Digits[i] = c) - 1

\* boost::to_lower
to_lower(s) ==
  [k \in DOMAIN s |->
     IF \E i \in DOMAIN UpperCase : UpperCase[i] = s[k]
       THEN LowerCase[CHOOSE i \in DOMAIN UpperCase : UpperCase[i] = s[k]]
       ELSE s[k]]

Node(code, children) == [code |-> code, children |-> children, precomputed |-> <<>>]

Lit(kind, v) == [lit |-> kind, v |-> v]

\* an AstNode_ptr that was never assigned
NullNode == Node("NULL", <<>>)

\* whether a child element holds an AstNode_ptr (boost::get<AstNode_ptr> succeeds)
IsNode(e) == "code" \in DOMAIN e

\* the spellings recognize() compares the lower-cased token with, in its order
KeywordTable == <<
  [text |-> <<"+">>, code |-> "TOK_PLUS"],
  [text |-> <<"*">>, code |-> "TOK_MULT"],
  [text |-> <<"/">>, code |-> "TOK_DIV"],
  [text |-> <<"-">>, code |-> "TOK_MINUS"],
  [text |-> <<"(">>, code |-> "TOK_LPAREN"],
  [text |-> <<")">>, code |-> "TOK_RPAREN"],
  [text |-> <<"=">>, code |-> "TOK_EQ"],
  [text |-> <<"=", "=">>, code |-> "TOK_EQ"],
  [text |-> <<"<", ">">>, code |-> "TOK_NEQ"],
  [text |-> <<"!", "=">>, code |-> "TOK_NEQ"],
  [text |-> <<"<">>, code |-> "TOK_LT"],
  [text |-> <<">">>, code |-> "TOK_GT"],
  [text |-> <<"<", "=">>, code |-> "TOK_LEQ"],
  [text |-> <<">", "=">>, code |-> "TOK_GEQ"],
  [text |-> <<"x">>, code |-> "TOK_X"],
  [text |-> <<"y">>, code |-> "TOK_Y"],
  [text |-> <<"z">>, code |-> "TOK_Z"],
  [text |-> <<"o", "c", "c", "u", "p", "a", "n", "c", "y">>, code |-> "TOK_OCC"],
  [text |-> <<"b", "e", "t", "a">>, code |-> "TOK_BETA"],
  [text |-> <<"o", "r">>, code |-> "TOK_OR"],
  [text |-> <<"a", "n", "d">>, code |-> "TOK_AND"],
  [text |-> <<"n", "o", "t">>, code |-> "TOK_NOT"],
  [text |-> <<"w", "i", "t", "h", "i", "n">>, code |-> "TOK_WITHIN"],
  [text |-> <<"p", "e", "r", "i", "o", "d", "i", "c">>, code |-> "TOK_PERIODIC"],
  [text |-> <<"n", "o", "n", "p", "e", "r", "i", "o", "d", "i", "c">>, code |-> "TOK_PERIODIC"],
  [text |-> <<"p", "b", "c">>, code |-> "TOK_PERIODIC"],
  [text |-> <<"n", "o", "p", "b", "c">>, code |-> "TOK_PERIODIC"],
  [text |-> <<"o", "f">>, code |-> "TOK_OF"],
  [text |-> <<"b", "y">>, code |-> "TOK_BY"],
  [text |-> <<"r", "e", "s">>, code |-> "TOK_RESIDUE"],
  [text |-> <<"r", "e", "s", "i", "d", "u", "e">>, code |-> "TOK_RESIDUE"],
  [text |-> <<"n", "a", "m", "e">>, code |-> "TOK_NAME"],
  [text |-> <<"r", "e", "s", "n", "a", "m", "e">>, code |-> "TOK_RESNAME"],
  [text |-> <<"t", "a", "g">>, code |-> "TOK_TAG"],
  [text |-> <<"c", "h", "a", "i", "n">>, code |-> "TOK_CHAIN"],
  [text |-> <<"r", "e", "s", "i", "d">>, code |-> "TOK_RESID"],
  [text |-> <<"i", "n", "d", "e", "x">>, code |-> "TOK_INDEX"],
  [text |-> <<"r", "e", "s", "i", "n", "d", "e", "x">>, code |-> "TOK_RESINDEX"],
  [text |-> <<"a", "l", "l">>, code |-> "TOK_ALL"],
  [text |-> <<"t", "o">>, code |-> "TOK_TO"],
  [text |-> <<"d", "i", "s", "t">>, code |-> "TOK_DIST"],
  [text |-> <<"d", "i", "s", "t", "a", "n", "c", "e">>, code |-> "TOK_DIST"],
  [text |-> <<"p", "o", "i", "n", "t">>, code |-> "TOK_POINT"],
  [text |-> <<"v", "e", "c", "t", "o", "r">>, code |-> "TOK_VECTOR"],
  [text |-> <<"p", "l", "a", "n", "e">>, code |-> "TOK_PLANE"] >>

\* 10^k
RECURSIVE pow10(_)
pow10(k) == IF k = 0 THEN 1 ELSE 10 * pow10(k - 1)

\* the number a sequence of digits spells
RECURSIVE digits_value(_)
digits_value(s) ==
  IF s = <<>> THEN 0 ELSE 10 * digits_value(SubSeq(s, 1, Len(s) - 1)) + digit_value(s[Len(s)])

all_digits(s) == \A k \in DOMAIN s : isdigit(s[k])

\* boost::lexical_cast<int> succeeds: a tokenizer token never holds a sign, so
\* these are the non-empty digit strings
is_int(s) == s # <<>> /\ all_digits(s)

\* the position of the first occurrence of one of the characters cs in s, or 0
first_of(s, cs) ==
  IF \E k \in DOMAIN s : s[k] \in cs
    THEN CHOOSE k \in DOMAIN s : s[k] \in cs /\ \A j \in 1..(k - 1) : s[j] \notin cs
    ELSE 0

\* mantissa and exponent part of a decimal spelling
mantissa(s) == IF first_of(s, {"e", "E"}) = 0 THEN s ELSE SubSeq(s, 1, first_of(s, {"e", "E"}) - 1)
exponent(s) == IF first_of(s, {"e", "E"}) = 0 THEN <<>> ELSE SubSeq(s, first_of(s, {"e", "E"}) + 1, Len(s))

\* boost::lexical_cast<float> succeeds, for the decimal spellings: digits with
\* at most one point and at least one digit, and an optional exponent e[-]digits
is_float(s) ==
  LET m == mantissa(s)
      e == exponent(s)
      md == SelectSeq(m, LAMBDA c : c # ".")
      ed == IF e # <<>> /\ e[1] = "-" THEN Tail(e) ELSE e
  IN /\ md # <<>> /\ all_digits(md) /\ Len(m) - Len(md) <= 1
     /\ first_of(s, {"e", "E"}) # 0 => (ed # <<>> /\ all_digits(ed))

\* the fraction a decimal spelling denotes
float_value(s) ==
  LET m == mantissa(s)
      e == exponent(s)
      md == SelectSeq(m, LAMBDA c : c # ".")
      frac == IF first_of(m, {"."}) = 0 THEN 0 ELSE Len(m) - first_of(m, {"."})
      neg == e # <<>> /\ e[1] = "-"
      ev == IF e = <<>> THEN 0 ELSE digits_value(IF neg THEN Tail(e) ELSE e)
      up == IF neg THEN 0 ELSE ev
      down == frac + (IF neg THEN ev ELSE 0)
  IN <<digits_value(md) * pow10(up), pow10(down)>>

\* recognize(s): the token node of a token text
recognize(s) ==
  LET low == to_lower(s)
      hits == {k \in DOMAIN KeywordTable : KeywordTable[k].text = low}
  IN IF hits # {}
       THEN LET code == KeywordTable[CHOOSE k \in hits : TRUE].code
            IN IF code = "TOK_PERIODIC"
                 THEN Node(code, <<Lit("bool", low \in {<<"p", "e", "r", "i", "o", "d", "i", "c">>,
                                                        <<"p", "b", "c">>})>>)
                 ELSE Node(code, <<>>)
     ELSE IF is_int(s) THEN Node("TOK_INT", <<Lit("int", digits_value(s))>>)
     ELSE IF is_float(s) THEN Node("TOK_FLOAT", <<Lit("float", float_value(s))>>)
     ELSE IF \A k \in DOMAIN s : isalnum(s[k]) THEN Node("TOK_STR", <<Lit("str", s)>>)
     ELSE Node("TOK_REGEX", <<Lit("str", s)>>)

\* at(s, i): the character at index i (0-based), 0 outside the string
at(s, i) == IF i >= 0 /\ i < Len(s) THEN s[i + 1] ELSE NUL

\* Selection_parser::end_token on the tokenizer state t = [b, cur, tokens, ends, st]
end_token(s, t, i) ==
  IF t.b >= 0 /\ i >= t.b /\ i < Len(s)
    THEN [t EXCEPT !.tokens = Append(@, recognize(SubSeq(s, t.b + 1, i + 1))),
                   !.ends = Append(@, i),
                   !.b = i + 1]
    ELSE t

\* while(s[cur]!=delim) cur += 1: the index of the closing quote, or -1 when
\* there is none and the loop reads past the end of the string
find_delim(s, cur, delim) ==
  IF \E k \in cur..(Len(s) - 1) : s[k + 1] = delim
    THEN CHOOSE k \in cur..(Len(s) - 1) :
           s[k + 1] = delim /\ \A j \in cur..(k - 1) : s[j + 1] # delim
    ELSE -1

\* an = , < or > operator at index k: a token of two characters when the next
\* character is one of seconds, of one character otherwise
end_operator(s, t, k, seconds) ==
  LET operator(ta) ==
        IF at(s, k + 1) \in seconds
          THEN [end_token(s, ta, k + 1) EXCEPT !.cur = k + 2]
          ELSE [end_token(s, ta, k) EXCEPT !.cur = k + 1]
  IN operator(end_token(s, t, k - 1))

\* one iteration of the character loop of tokenize
tokenize_char(s, t) ==
  LET cur == t.cur
      c == s[cur + 1]
      \* the quoted text is one token, cur is left after the closing quote
      quote_close(ta, close) ==
        IF close < 0
          THEN [ta EXCEPT !.st = "undefined"]
          ELSE [end_token(s, [ta EXCEPT !.b = @ + 1], close - 1) EXCEPT !.cur = close + 1]
      \* a quote ends the token before it
      quoted(t0) ==
        IF c \in {"\"", "'"}
          THEN quote_close(end_token(s, t0, cur - 1), find_delim(s, cur + 1, c))
          ELSE t0
      \* the exponent sign, the operators and any other character
      operators(t1, k, ch) ==
        IF t1.st # "ok" THEN t1
        ELSE IF ch \in {"e", "E"} /\ at(s, k + 1) = "-" /\ isdigit(at(s, k - 1))
          THEN [t1 EXCEPT !.cur = k + 2]
        ELSE IF ch \in {"+", "*", "/", "(", ")", "-"}
          THEN [end_token(s, end_token(s, t1, k - 1), k) EXCEPT !.cur = k + 1]
        ELSE IF ch \in {">", "="} THEN end_operator(s, t1, k, {"="})
        ELSE IF ch = "<" THEN end_operator(s, t1, k, {"=", ">"})
        ELSE IF ch = "!" /\ at(s, k + 1) = "="
          THEN [end_token(s, end_token(s, t1, k - 1), k + 1) EXCEPT !.cur = k + 2]
        ELSE [t1 EXCEPT !.cur = k + 1]
      at_cur(t1) == operators(t1, t1.cur, at(s, t1.cur))
  IN IF ~isspace(c)
       THEN at_cur(quoted(IF t.b < 0 THEN [t EXCEPT !.b = cur] ELSE t))
       ELSE [end_token(s, t, cur - 1) EXCEPT !.b = -1, !.cur = cur + 1]

RECURSIVE tokenize_loop(_, _)
tokenize_loop(s, t) ==
  IF t.st = "ok" /\ t.cur < Len(s) THEN tokenize_loop(s, tokenize_char(s, t))
  ELSE IF t.st = "ok" THEN end_token(s, t, t.cur - 1)
  ELSE t

\* Selection_parser::tokenize: tokens is cleared, token_ends is appended to
tokenize(s, token_ends) ==
  tokenize_loop(s, [b |-> -1, cur |-> 0, tokens |-> <<>>, ends |-> token_ends, st |-> "ok"])

(***************************************************************************)
(* Grammar.  A rule takes the token array and the value of cur and gives   *)
(* [ok, cur, res]: what it returns, where it leaves cur (a rule that fails *)
(* does not move cur back) and the node it leaves in res when it succeeds. *)
(* Grammar(rule, toks, cur) is the call of the member function rule.       *)
(***************************************************************************)
Fail(cur) == [ok |-> FALSE, cur |-> cur, res |-> NullNode]

Match(cur, res) == [ok |-> TRUE, cur |-> cur, res |-> res]

\* Grammar::expect for each code of a chain expect(c1,res) || expect(c2,res) ...
expect(toks, cur, codes) ==
  IF cur >= Len(toks) THEN Fail(cur)
  ELSE IF toks[cur + 1].code \in codes THEN Match(cur + 1, toks[cur + 1])
  ELSE Fail(cur)

\* res->children.push_back(child)
push_back(node, child) == [node EXCEPT !.children = Append(@, child)]

RECURSIVE Grammar(_, _, _)
RECURSIVE num_factors(_, _, _)

unary_minus(toks, cur) ==
  LET m == expect(toks, cur, {"TOK_MINUS"})
  IN IF ~m.ok THEN Fail(cur)
     ELSE LET val == Grammar("num_factor", toks, m.cur)
          IN IF val.ok
               THEN Match(val.cur, [push_back(m.res, val.res) EXCEPT !.code = "TOK_UNARY_MINUS"])
               ELSE Fail(val.cur)

num_factor(toks, cur) ==
  LET e1 == expect(toks, cur, {"TOK_FLOAT", "TOK_INT"})
      lp == expect(toks, cur, {"TOK_LPAREN"})
      ne == Grammar("num_expr", toks, lp.cur)
      rp == expect(toks, ne.cur, {"TOK_RPAREN"})
      cur2 == IF ~lp.ok THEN cur ELSE IF ~ne.ok THEN ne.cur ELSE rp.cur
      e2 == expect(toks, cur2, {"TOK_X", "TOK_Y", "TOK_Z", "TOK_BETA", "TOK_OCC"})
      dr == Grammar("distance_rule", toks, cur2)
  IN IF e1.ok THEN e1
     ELSE IF lp.ok /\ ne.ok /\ rp.ok THEN Match(rp.cur, ne.res)
     ELSE IF e2.ok THEN e2
     ELSE IF dr.ok THEN dr
     ELSE Grammar("unary_minus", toks, dr.cur)

\* num_factor(x) && num_factor(y) && ... for n operands: res is their sequence
num_factors(toks, cur, n) ==
  IF n = 0 THEN Match(cur, <<>>)
  ELSE LET f == Grammar("num_factor", toks, cur)
       IN IF ~f.ok THEN Fail(f.cur)
          ELSE LET rest == num_factors(toks, f.cur, n - 1)
               IN IF rest.ok THEN Match(rest.cur, <<f.res>> \o rest.res) ELSE Fail(rest.cur)

distance_rule(toks, cur) ==
  LET d == expect(toks, cur, {"TOK_DIST"})
      pbc == expect(toks, d.cur, {"TOK_PERIODIC"})
      pt == expect(toks, pbc.cur, {"TOK_POINT"})
      vp == expect(toks, pbc.cur, {"TOK_VECTOR", "TOK_PLANE"})
      args == IF pt.ok THEN num_factors(toks, pt.cur, 3) ELSE num_factors(toks, vp.cur, 6)
      head == IF pt.ok THEN pt.res ELSE vp.res
      tail == IF pbc.ok THEN <<pbc.res>> ELSE <<>>
  IN IF ~d.ok THEN Fail(cur)
     ELSE IF pt.ok \/ vp.ok
       THEN IF args.ok
              THEN Match(args.cur, [head EXCEPT !.children = @ \o args.res \o tail])
              ELSE Fail(args.cur)
     ELSE Match(pbc.cur, NullNode)

\* the while loop of num_term: res is the tree built so far
RECURSIVE num_term_loop(_, _, _)
num_term_loop(toks, cur, res) ==
  LET op == expect(toks, cur, {"TOK_MULT", "TOK_DIV"})
      operand2 == Grammar("num_factor", toks, op.cur)
  IN IF ~op.ok THEN Match(cur, res)
     ELSE IF ~operand2.ok THEN Match(operand2.cur, res)
     ELSE num_term_loop(toks, operand2.cur, push_back(push_back(op.res, res), operand2.res))

num_term(toks, cur) ==
  LET operand1 == Grammar("num_factor", toks, cur)
  IN IF ~operand1.ok THEN Fail(operand1.cur)
     ELSE num_term_loop(toks, operand1.cur, operand1.res)

RECURSIVE num_expr_loop(_, _, _)
num_expr_loop(toks, cur, res) ==
  LET op == expect(toks, cur, {"TOK_PLUS", "TOK_MINUS"})
      operand2 == Grammar("num_term", toks, op.cur)
  IN IF ~op.ok THEN Match(cur, res)
     ELSE IF ~operand2.ok THEN Match(operand2.cur, res)
     ELSE num_expr_loop(toks, operand2.cur, push_back(push_back(op.res, res), operand2.res))

num_expr(toks, cur) ==
  LET operand1 == Grammar("num_term", toks, cur)
  IN IF ~operand1.ok THEN Fail(operand1.cur)
     ELSE num_expr_loop(toks, operand1.cur, operand1.res)

num_comparison(toks, cur) ==
  LET operand1 == Grammar("num_expr", toks, cur)
      op == expect(toks, operand1.cur,
                   {"TOK_EQ", "TOK_NEQ", "TOK_LT", "TOK_GT", "TOK_LEQ", "TOK_GEQ"})
      operand2 == Grammar("num_expr", toks, op.cur)
  IN IF ~operand1.ok THEN Fail(operand1.cur)
     ELSE IF ~op.ok THEN Fail(operand1.cur)
     ELSE IF ~operand2.ok THEN Fail(operand2.cur)
     ELSE Match(operand2.cur, push_back(push_back(op.res, operand1.res), operand2.res))

RECURSIVE logical_expr_loop(_, _, _)
logical_expr_loop(toks, cur, res) ==
  LET op == expect(toks, cur, {"TOK_OR", "TOK_AND"})
      operand2 == Grammar("logical_operand", toks, op.cur)
  IN IF ~op.ok THEN Match(cur, res)
     ELSE IF ~operand2.ok THEN Match(operand2.cur, res)
     ELSE logical_expr_loop(toks, operand2.cur, push_back(push_back(op.res, res), operand2.res))

logical_expr(toks, cur) ==
  LET operand1 == Grammar("logical_operand", toks, cur)
  IN IF ~operand1.ok THEN Fail(operand1.cur)
     ELSE logical_expr_loop(toks, operand1.cur, operand1.res)

logical_not(toks, cur) ==
  LET tmp == expect(toks, cur, {"TOK_NOT"})
      res == Grammar("logical_operand", toks, tmp.cur)
  IN IF ~tmp.ok THEN Fail(cur)
     ELSE IF res.ok THEN Match(res.cur, push_back(tmp.res, res.res))
     ELSE Fail(res.cur)

within_rule(toks, cur) ==
  LET res == expect(toks, cur, {"TOK_WITHIN"})
      dist == expect(toks, res.cur, {"TOK_FLOAT", "TOK_INT"})
      periodic == expect(toks, dist.cur, {"TOK_PERIODIC"})
      of == expect(toks, periodic.cur, {"TOK_OF"})
      expr == Grammar("logical_operand", toks, of.cur)
  IN IF ~res.ok THEN Fail(cur)
     ELSE IF ~dist.ok THEN Fail(res.cur)
     ELSE IF ~of.ok THEN Fail(periodic.cur)
     ELSE IF ~expr.ok THEN Fail(expr.cur)
     ELSE Match(expr.cur,
                [res.res EXCEPT !.children =
                   @ \o <<dist.res, expr.res>> \o (IF periodic.ok THEN <<periodic.res>> ELSE <<>>)])

by_residue(toks, cur) ==
  LET res == expect(toks, cur, {"TOK_BY"})
      dum == expect(toks, res.cur, {"TOK_RESIDUE"})
      expr == Grammar("logical_operand", toks, dum.cur)
  IN IF ~res.ok THEN Fail(cur)
     ELSE IF ~dum.ok THEN Fail(res.cur)
     ELSE IF ~expr.ok THEN Fail(expr.cur)
     ELSE Match(expr.cur, push_back(res.res, expr.res))

\* while( expect(TOK_STR,str) || expect(TOK_REGEX,str) ) res->children.push_back(str)
RECURSIVE text_list_loop(_, _, _)
text_list_loop(toks, cur, res) ==
  LET str == expect(toks, cur, {"TOK_STR", "TOK_REGEX"})
  IN IF str.ok THEN text_list_loop(toks, str.cur, push_back(res, str.res)) ELSE Match(cur, res)

keyword_text_list(toks, cur) ==
  LET res == expect(toks, cur, {"TOK_NAME", "TOK_RESNAME", "TOK_TAG", "TOK_CHAIN"})
      list == text_list_loop(toks, res.cur, res.res)
  IN IF ~res.ok THEN Fail(cur)
     ELSE IF list.res.children = <<>> THEN Fail(list.cur)
     ELSE list

int_or_range(toks, cur) ==
  LET v1 == expect(toks, cur, {"TOK_INT"})
      res == expect(toks, v1.cur, {"TOK_TO", "TOK_MINUS"})
      v2 == expect(toks, res.cur, {"TOK_INT"})
  IN IF ~v1.ok THEN Fail(cur)
     ELSE IF res.ok /\ v2.ok
       THEN Match(v2.cur, [push_back(push_back(res.res, v1.res), v2.res) EXCEPT !.code = "TOK_TO"])
     ELSE Match(res.cur, v1.res)

\* while( int_or_range(tok) ) res->children.push_back( tok )
RECURSIVE int_list_loop(_, _, _)
int_list_loop(toks, cur, res) ==
  LET tok == Grammar("int_or_range", toks, cur)
  IN IF tok.ok THEN int_list_loop(toks, tok.cur, push_back(res, tok.res)) ELSE Match(tok.cur, res)

keyword_int_list(toks, cur) ==
  LET res == expect(toks, cur, {"TOK_RESID", "TOK_RESINDEX", "TOK_INDEX"})
      list == int_list_loop(toks, res.cur, res.res)
  IN IF ~res.ok THEN Fail(cur)
     ELSE IF list.res.children = <<>> THEN Fail(list.cur)
     ELSE list

logical_operand(toks, cur) ==
  LET lp == expect(toks, cur, {"TOK_LPAREN"})
      le == Grammar("logical_expr", toks, lp.cur)
      rp == expect(toks, le.cur, {"TOK_RPAREN"})
      cur2 == IF ~lp.ok THEN cur ELSE IF ~le.ok THEN le.cur ELSE rp.cur
      nc == Grammar("num_comparison", toks, cur2)
      al == expect(toks, nc.cur, {"TOK_ALL"})
      ln == Grammar("logical_not", toks, nc.cur)
      wr == Grammar("within_rule", toks, ln.cur)
      br == Grammar("by_residue", toks, wr.cur)
      kt == Grammar("keyword_text_list", toks, br.cur)
  IN IF lp.ok /\ le.ok /\ rp.ok THEN Match(rp.cur, le.res)
     ELSE IF nc.ok THEN nc
     ELSE IF al.ok THEN al
     ELSE IF ln.ok THEN ln
     ELSE IF wr.ok THEN wr
     ELSE IF br.ok THEN br
     ELSE IF kt.ok THEN kt
     ELSE Grammar("keyword_int_list", toks, kt.cur)

\* a call of a member function of class Grammar
Grammar(rule, toks, cur) ==
  CASE rule = "unary_minus" -> unary_minus(toks, cur)
    [] rule = "num_factor" -> num_factor(toks, cur)
    [] rule = "distance_rule" -> distance_rule(toks, cur)
    [] rule = "num_term" -> num_term(toks, cur)
    [] rule = "num_expr" -> num_expr(toks, cur)
    [] rule = "num_comparison" -> num_comparison(toks, cur)
    [] rule = "logical_expr" -> logical_expr(toks, cur)
    [] rule = "logical_not" -> logical_not(toks, cur)
    [] rule = "within_rule" -> within_rule(toks, cur)
    [] rule = "by_residue" -> by_residue(toks, cur)
    [] rule = "keyword_text_list" -> keyword_text_list(toks, cur)
    [] rule = "int_or_range" -> int_or_range(toks, cur)
    [] rule = "keyword_int_list" -> keyword_int_list(toks, cur)
    [] rule = "logical_operand" -> logical_operand(toks, cur)

\* Grammar::run on a null or earlier tree: the tree afterwards and the value of cur
run(toks, tree) ==
  LET r == Grammar("logical_expr", toks, 0)
  IN [pos |-> r.cur, tree |-> IF r.ok THEN r.res ELSE tree]

(***************************************************************************)
(* Evaluation.  sys is the system at the frame of the call:                *)
(*   [atoms, coord, box]                                                   *)
(* atoms the attribute records, coord the coordinates of the frame and box *)
(* the extents of its periodic box.  A subspace is [has, idx] (has = FALSE *)
(* for the NULL pointer).  An evaluation gives [st, res] (eval_node) or    *)
(* [st, v] (eval_numeric): st is "ok", "error" (Pteros_error thrown) or    *)
(* "undefined" (the code ran into undefined behaviour).                    *)
(***************************************************************************)
Ok(res) == [st |-> "ok", res |-> res]

Bad(st) == [st |-> st, res |-> <<>>]

NoSubspace == [has |-> FALSE, idx |-> <<>>]

Subspace(idx) == [has |-> TRUE, idx |-> idx]

Val(v) == [st |-> "ok", v |-> v]

BadVal(st) == [st |-> st, v |-> <<0, 1>>]

\* AstNode::is_coordinate_dependent
is_coordinate_dependent(code) ==
  code \in {"TOK_X", "TOK_Y", "TOK_Z", "TOK_WITHIN", "TOK_POINT", "TOK_PLANE", "TOK_VECTOR"}

RECURSIVE is_node_pure(_)
is_node_pure(node) ==
  /\ ~is_coordinate_dependent(node.code)
  /\ \A i \in DOMAIN node.children :
       IsNode(node.children[i]) => is_node_pure(node.children[i])

RECURSIVE regex_match(_, _)
\* std::regex_match of the whole string s against the pattern p, for patterns
\* of literal characters, "." and a postfix "*"
regex_match(s, p) ==
  LET hit(c) == s # <<>> /\ (c = "." \/ c = s[1])
  IN IF p = <<>> THEN s = <<>>
     ELSE IF Len(p) >= 2 /\ p[2] = "*"
       THEN regex_match(s, Tail(Tail(p))) \/ (hit(p[1]) /\ regex_match(Tail(s), p))
     ELSE hit(p[1]) /\ regex_match(Tail(s), Tail(p))

\* the atoms of the set hits in the order of the loop for(at=0;at<Natoms;++at)
atoms_where(sys, hits) == SelectSeq(Range(0, Len(sys.atoms) - 1), LAMBDA a : a \in hits)

\* one child of a NAME, RESNAME or TAG list: a plain string or a regex
text_item(sys, field, item) ==
  IF item.code = "TOK_STR"
    THEN atoms_where(sys, {a \in 0..(Len(sys.atoms) - 1) :
                            sys.atoms[a + 1][field] = item.children[1].v})
  ELSE IF item.code = "TOK_REGEX"
    THEN atoms_where(sys, {a \in 0..(Len(sys.atoms) - 1) :
                            regex_match(sys.atoms[a + 1][field], item.children[1].v)})
  ELSE <<>>

\* a range that leaves out its upper end
int_values_half_open(item) ==
  IF item.code = "TOK_TO"
    THEN Range(item.children[1].children[1].v, item.children[2].children[1].v - 1)
    ELSE <<item.children[1].v>>

\* the integers of one child of an integer list: k, or the range i1..i2
int_values(item) ==
  IF item.code = "TOK_TO"
    THEN Range(item.children[1].children[1].v, item.children[2].children[1].v)
    ELSE <<item.children[1].v>>

\* one child of a RESID or RESINDEX list
int_item(sys, field, item) ==
  Concat([k \in DOMAIN int_values(item) |->
            atoms_where(sys, {a \in 0..(Len(sys.atoms) - 1) :
                                sys.atoms[a + 1][field] = int_values(item)[k]})])

\* one child of an INDEX list, with the range check 0 <= k < Natoms
index_item(sys, item) ==
  SelectSeq(int_values(item), LAMBDA k : k >= 0 /\ k < Len(sys.atoms))

\* AstNode::child_as_float_or_int
child_as_float_or_int(node, i) ==
  LET l == node.children[i + 1].children[1]
  IN IF l.lit = "float" THEN l.v ELSE <<l.v, 1>>

\* fractions with a positive denominator
frac_add(a, b) == <<a[1] * b[2] + b[1] * a[2], a[2] * b[2]>>
frac_sub(a, b) == <<a[1] * b[2] - b[1] * a[2], a[2] * b[2]>>
frac_mul(a, b) == <<a[1] * b[1], a[2] * b[2]>>
frac_div(a, b) == IF b[1] > 0 THEN <<a[1] * b[2], a[2] * b[1]>> ELSE <<-(a[1] * b[2]), -(a[2] * b[1])>>
frac_less(a, b) == a[1] * b[2] < b[1] * a[2]
frac_equal(a, b) == a[1] * b[2] = b[1] * a[2]

RECURSIVE eval_numeric(_, _, _)
\* Selection_parser::eval_numeric.  A node whose code has no branch (a numeric
\* operand turned into TOK_PRECOMPUTED, for one) makes the function flow off
\* its end without a return value.  The distance nodes are not evaluated here.
eval_numeric(sys, node, a) ==
  LET c == node.code
      v0 == eval_numeric(sys, node.children[1], a)
      v1 == eval_numeric(sys, node.children[2], a)
      binary(Op(_, _)) == IF v0.st # "ok" THEN v0 ELSE IF v1.st # "ok" THEN v1
                          ELSE Val(Op(v0.v, v1.v))
  IN IF c = "TOK_INT" THEN Val(<<node.children[1].v, 1>>)
     ELSE IF c = "TOK_FLOAT" THEN Val(node.children[1].v)
     ELSE IF c = "TOK_X" THEN Val(<<sys.coord[a + 1][1], 1>>)
     ELSE IF c = "TOK_Y" THEN Val(<<sys.coord[a + 1][2], 1>>)
     ELSE IF c = "TOK_Z" THEN Val(<<sys.coord[a + 1][3], 1>>)
     ELSE IF c = "TOK_BETA" THEN Val(<<sys.atoms[a + 1].beta, 1>>)
     ELSE IF c = "TOK_OCC" THEN Val(<<sys.atoms[a + 1].occupancy, 1>>)
     ELSE IF c = "TOK_UNARY_MINUS"
       THEN IF v0.st # "ok" THEN v0 ELSE Val(<<-v0.v[1], v0.v[2]>>)
     ELSE IF c = "TOK_PLUS" THEN binary(frac_add)
     ELSE IF c = "TOK_MINUS" THEN binary(frac_sub)
     ELSE IF c = "TOK_MULT" THEN binary(frac_mul)
     ELSE IF c = "TOK_DIV"
       THEN IF v0.st # "ok" THEN v0
            ELSE IF v0.v[1] = 0 THEN BadVal("error")
            ELSE IF v1.st # "ok" THEN v1
            ELSE Val(frac_div(v1.v, v0.v))
     ELSE IF c \in {"TOK_POINT", "TOK_VECTOR", "TOK_PLANE"} THEN BadVal("distance")
     ELSE BadVal("undefined")

\* the comparison of a math logical node
compare(code, a, b) ==
  IF code = "TOK_EQ" THEN frac_equal(a, b)
  ELSE IF code = "TOK_NEQ" THEN ~frac_equal(a, b)
  ELSE IF code = "TOK_LT" THEN frac_less(a, b)
  ELSE IF code = "TOK_GT" THEN frac_less(b, a)
  ELSE IF code = "TOK_LEQ" THEN ~frac_less(b, a)
  ELSE ~frac_less(a, b)

\* a math logical node over all atoms or over the subspace
eval_comparison(sys, node, subspace) ==
  LET dom == IF subspace.has THEN subspace.idx ELSE Range(0, Len(sys.atoms) - 1)
      l(k) == eval_numeric(sys, node.children[1], dom[k])
      r(k) == eval_numeric(sys, node.children[2], dom[k])
      bad == {k \in DOMAIN dom : l(k).st # "ok" \/ r(k).st # "ok"}
      first == CHOOSE k \in bad : \A j \in bad : k <= j
      hits == {k \in DOMAIN dom : compare(node.code, l(k).v, r(k).v)}
  IN IF bad # {} THEN Bad(IF l(first).st # "ok" THEN l(first).st ELSE r(first).st)
     ELSE Ok([j \in 1..Cardinality(hits) |->
                dom[CHOOSE k \in hits : Cardinality({h \in hits : h < k}) = j - 1]])

\* the gaps of a sorted index list: before the first, between any two, after the last
negation(res1, Natoms) ==
  SelectSeq(Range(0, Natoms - 1), LAMBDA j : \A i \in DOMAIN res1 : res1[i] # j)

RECURSIVE eval_node(_, _, _)
\* Selection_parser::eval_node: the content of result on return
eval_node(sys, node, subspace) ==
  LET c == node.code
      Natoms == Len(sys.atoms)
      list(Item(_)) == Ok(Concat([i \in DOMAIN node.children |-> Item(node.children[i])]))
  IN IF c = "TOK_PRECOMPUTED"
       THEN IF ~subspace.has THEN Ok(node.precomputed)
            ELSE Ok(set_intersection(subspace.idx, node.precomputed))
     ELSE IF c = "TOK_NOT"
       THEN LET r == eval_node(sys, node.children[1], subspace)
            IN IF r.st # "ok" THEN r
               ELSE IF r.res = <<>> THEN Bad("undefined")
               ELSE Ok(negation(sort(r.res), Natoms))
     ELSE IF c = "TOK_OR"
       THEN LET r1 == eval_node(sys, node.children[1], subspace)
                r2 == eval_node(sys, node.children[2], subspace)
            IN IF r1.st # "ok" THEN r1 ELSE IF r2.st # "ok" THEN r2
               ELSE Ok(set_union(sort(r1.res), sort(r2.res)))
     ELSE IF c = "TOK_AND"
       THEN LET r1 == eval_node(sys, node.children[1], subspace)
                r2 == eval_node(sys, node.children[2], Subspace(r1.res))
            IN IF r1.st # "ok" THEN r1 ELSE IF r2.st # "ok" THEN r2
               ELSE Ok(set_intersection(sort(r1.res), sort(r2.res)))
     ELSE IF c = "TOK_NAME" THEN list(LAMBDA item : text_item(sys, "name", item))
     ELSE IF c = "TOK_RESNAME" THEN list(LAMBDA item : text_item(sys, "resname", item))
     ELSE IF c = "TOK_TAG" THEN list(LAMBDA item : text_item(sys, "tag", item))
     ELSE IF c = "TOK_CHAIN"
       THEN list(LAMBDA item :
              atoms_where(sys, {a \in 0..(Len(sys.atoms) - 1) :
                                  sys.atoms[a + 1].chain = at(item.children[1].v, 0)}))
     ELSE IF c = "TOK_RESID" THEN list(LAMBDA item : int_item(sys, "resid", item))
     ELSE IF c = "TOK_RESINDEX" THEN list(LAMBDA item : int_item(sys, "resindex", item))
     ELSE IF c = "TOK_INDEX" THEN list(LAMBDA item : index_item(sys, item))
     ELSE IF c = "TOK_WITHIN"
       THEN LET dist == child_as_float_or_int(node, 0)
                dum2 == eval_node(sys, node.children[2], NoSubspace)
                flag == node.children[3]
                dum1 == IF subspace.has THEN subspace.idx ELSE Range(0, Natoms - 1)
            IN IF dum2.st # "ok" THEN dum2
               ELSE IF Len(node.children) = 3 /\ flag.children = <<>> THEN Bad("undefined")
               ELSE IF dum1 = <<>> \/ dum2.res = <<>> THEN Bad("empty")
               ELSE Ok(within_constructor(dist[1] \div dist[2],
                                          Len(node.children) = 3 /\ flag.children[1].v,
                                          TRUE, TRUE, sys.box, sys.coord, dum1, dum2.res, <<>>))
     ELSE IF c = "TOK_BY"
       THEN LET r == eval_node(sys, node.children[1], subspace)
                resind == {sys.atoms[r.res[i] + 1].resindex : i \in DOMAIN r.res}
            IN IF r.st # "ok" THEN r
               ELSE Ok(atoms_where(sys, {a \in 0..(Len(sys.atoms) - 1) :
                                           sys.atoms[a + 1].resindex \in resind}))
     ELSE IF c = "TOK_ALL" THEN Ok(Range(0, Natoms - 1))
     ELSE IF c \in {"TOK_EQ", "TOK_NEQ", "TOK_LT", "TOK_GT", "TOK_LEQ", "TOK_GEQ"}
       THEN eval_comparison(sys, node, subspace)
     ELSE Ok(<<>>)

(***************************************************************************)
(* Compilation and application                                             *)
(***************************************************************************)
RECURSIVE do_optimization(_, _)
RECURSIVE optimize_children(_, _, _)

\* the loop "go deeper" of do_optimization over the children from the i-th on
\* (1-based): [st, node]
optimize_children(sys, node, i) ==
  IF i > Len(node.children) THEN [st |-> "ok", node |-> node]
  ELSE IF ~IsNode(node.children[i]) THEN optimize_children(sys, node, i + 1)
  ELSE LET next(o) ==
             IF o.st # "ok" THEN [st |-> o.st, node |-> node]
             ELSE optimize_children(sys, [node EXCEPT !.children[i] = o.node], i + 1)
       IN next(do_optimization(sys, node.children[i]))

\* Selection_parser::do_optimization: [st, node], the node afterwards.  A pure
\* node is evaluated into its own precomputed list, which eval_node clears first.
do_optimization(sys, node) ==
  LET \* a pure unary minus of a literal becomes the negated literal
      fold(child) ==
        IF child.code = "TOK_INT"
          THEN [node EXCEPT !.children = <<Lit("int", -child.children[1].v)>>,
                            !.code = "TOK_INT"]
        ELSE IF child.code = "TOK_FLOAT"
          THEN [node EXCEPT !.children = <<Lit("float", <<-child.children[1].v[1],
                                                         child.children[1].v[2]>>)>>,
                            !.code = "TOK_FLOAT"]
        ELSE node
      \* any other pure node becomes TOK_PRECOMPUTED with the evaluated list
      freeze(r) ==
        IF r.st # "ok" THEN [st |-> r.st, node |-> node]
        ELSE [st |-> "ok", node |-> [node EXCEPT !.precomputed = r.res, !.children = <<>>,
                                                 !.code = "TOK_PRECOMPUTED"]]
      \* the pure operand of an AND goes first
      swap(n) ==
        IF n.code = "TOK_AND" /\ ~is_node_pure(n.children[1]) /\ is_node_pure(n.children[2])
          THEN [n EXCEPT !.children = <<n.children[2], n.children[1]>>]
          ELSE n
      deeper(f) == IF f.st # "ok" THEN f ELSE optimize_children(sys, swap(f.node), 1)
  IN IF node.code \in {"TOK_VOID", "TOK_STR", "TOK_REGEX", "TOK_FLOAT", "TOK_INT"}
       THEN [st |-> "ok", node |-> node]
     ELSE deeper(IF ~is_node_pure(node) THEN [st |-> "ok", node |-> node]
                 ELSE IF node.code = "TOK_UNARY_MINUS"
                   THEN [st |-> "ok", node |-> fold(node.children[1])]
                 ELSE freeze(eval_node(sys, [node EXCEPT !.precomputed = <<>>], NoSubspace)))

\* Selection_parser::create_ast on the parser p = [tokens, token_ends, tree,
\* has_coord, is_optimized]: [st, p, pos], st = "ok", "syntax_error" (pos is
\* the offending token) or "undefined"
create_ast(p, sel_str) ==
  LET parsed(t, g, p2) ==
        IF g.pos # Len(t.tokens) THEN [st |-> "syntax_error", p |-> p2, pos |-> g.pos]
        ELSE IF g.tree = NullNode THEN [st |-> "undefined", p |-> p2, pos |-> g.pos]
        ELSE [st |-> "ok", pos |-> g.pos,
              p |-> [p2 EXCEPT !.tokens = <<>>, !.token_ends = <<>>,
                               !.has_coord = p.has_coord \/ ~is_node_pure(g.tree),
                               !.is_optimized = FALSE]]
      grammar(t, g) ==
        parsed(t, g, [p EXCEPT !.tokens = t.tokens, !.token_ends = t.ends, !.tree = g.tree])
      tokenized(t) ==
        IF t.st # "ok"
          THEN [st |-> "undefined", pos |-> 0,
                p |-> [p EXCEPT !.tokens = t.tokens, !.token_ends = t.ends]]
          ELSE grammar(t, run(t.tokens, p.tree))
  IN tokenized(tokenize(sel_str, p.token_ends))

\* an apply that runs the optimization pass on every call, optimized or not
optimize_on_every_apply(p) == p.has_coord

\* whether apply runs the optimization pass
needs_optimization(p) == p.has_coord /\ ~p.is_optimized

\* Selection_parser::apply: [st, p, result], the parser and the content of
\* result afterwards
apply(p, sys) ==
  LET evaluated(p1, r) ==
        IF r.st # "ok" THEN [st |-> r.st, p |-> p1, result |-> <<>>]
        ELSE [st |-> "ok", p |-> p1, result |-> sort(r.res)]
      eval_root(p1) == evaluated(p1, eval_node(sys, p1.tree, NoSubspace))
      optimized(o) ==
        IF o.st # "ok" THEN [st |-> o.st, p |-> p, result |-> <<>>]
        ELSE eval_root(IF needs_optimization(p)
                         THEN [p EXCEPT !.tree = o.node, !.is_optimized = TRUE]
                         ELSE p)
  IN optimized(IF needs_optimization(p) THEN do_optimization(sys, p.tree)
               ELSE [st |-> "ok", node |-> p.tree])

(***************************************************************************)
(* State                                                                   *)
(***************************************************************************)
VARIABLES
  coord,        \* grid specifications: the coordinates of the point store
  gcall,        \* grid specifications: the last search call and its arguments
  bon,          \* the pair list a self / cross search wrote
  within_out,   \* the index list a within search wrote
  gstatus,      \* "idle", "running", "ok", "error" or "undefined" (the call ran into
                \* undefined behaviour)
  workers,      \* the worker threads of a search: the range and the private pair
                \* list of each, and the steps it has still to run
  used,         \* the used flags of a within search: the flagged source points
  visited,      \* Grid_searcher::visited: the cells marked as visited
  accesses,     \* history: the loads and stores of the workers on used and visited
  atoms,        \* System::atoms, the attribute records
  traj,         \* System::traj, the coordinates of each frame
  tokens,       \* Selection_parser::tokens
  token_ends,   \* Selection_parser::token_ends
  tree,         \* Selection_parser::tree
  has_coord,    \* Selection_parser::has_coord
  is_optimized, \* Selection_parser::is_optimized
  result,       \* the index vector the caller passes to apply
  pstatus,      \* "new", "compiled", "applied", "syntax_error", "error" or "undefined"
  query,        \* the string given to create_ast
  error_pos,    \* the number of "~" before the "^" of the syntax error message
  frames        \* the frames apply was called with, in order

gvars == <<coord, gcall, bon, within_out, gstatus, workers, used, visited, accesses>>

\* the variables of the worker threads
tvars == <<workers, used, visited, accesses>>

\* no worker has run
NoAccesses == [loads |-> {}, stores |-> {}, cleared |-> {}, sides |-> {}, again |-> {}]

pvars == <<atoms, traj, tokens, token_ends, tree, has_coord, is_optimized, result, pstatus,
           query, error_pos, frames>>

vars == <<gvars, pvars>>

(***************************************************************************)
(* Grid specifications: inputs                                             *)
(***************************************************************************)
\* the k-th position of the lattice the points are drawn from (z = 0)
Position(k) == <<(k - 1) \div (MaxY + 1), (k - 1) % (MaxY + 1), 0>>

NumPositions == (MaxX + 1) * (MaxY + 1)

\* cyclic rotation of the axes, so that each axis is the longest in turn
Rotate(p, r) == IF r = 0 THEN p ELSE IF r = 1 THEN <<p[3], p[1], p[2]>> ELSE <<p[2], p[3], p[1]>>

\* the point stores: NumPoints points in non-decreasing lattice order (two
\* points may coincide), under each rotation of the axes
PointStores ==
  {[i \in 1..NumPoints |-> Rotate(Position(s[i]), r)] :
     s \in {t \in [1..NumPoints -> 1..NumPositions] :
              \A i \in 1..(NumPoints - 1) : t[i] <= t[i + 1]},
     r \in 0..2}

\* the orthogonal periodic boxes of a frame: one with the far points on its
\* face (they wrap to cell 0), one strictly containing all points
Boxes(r) == {Rotate(<<MaxX, MaxY + 1, 1>>, r), Rotate(<<MaxX + 1, MaxY + 2, 2>>, r)}

\* the rotation a point store was built with
RotationOf(c) ==
  IF \A i \in DOMAIN c : c[i][3] = 0 THEN 0
  ELSE IF \A i \in DOMAIN c : c[i][1] = 0 THEN 1 ELSE 2

\* all index vectors (ascending) of non-empty subsets of the point store
SubSelections ==
  {SelectSeq(Range(0, NumPoints - 1), LAMBDA i : i \in S) :
     S \in (SUBSET (0..(NumPoints - 1))) \ {{}}}

AllPoints == Range(0, NumPoints - 1)

NoCall == [op |-> "none"]

\* the grid specifications do not use a parser
GridInit ==
  /\ coord \in PointStores
  /\ gcall = NoCall
  /\ bon = <<>>
  /\ within_out = <<>>
  /\ gstatus = "idle"
  /\ workers = <<>>
  /\ used = {}
  /\ visited = {}
  /\ accesses = NoAccesses
  /\ atoms = <<>>
  /\ traj = <<>>
  /\ tokens = <<>>
  /\ token_ends = <<>>
  /\ tree = NullNode
  /\ has_coord = FALSE
  /\ is_optimized = FALSE
  /\ result = <<>>
  /\ pstatus = "new"
  /\ query = <<>>
  /\ error_pos = 0
  /\ frames = <<>>

\* a searcher before a call, with the points and the result vector of the caller
SearcherInit(stores, outs) ==
  /\ coord \in stores
  /\ gcall = NoCall
  /\ bon = <<>>
  /\ within_out \in outs
  /\ gstatus = "idle"
  /\ workers = <<>>
  /\ used = {}
  /\ visited = {}
  /\ accesses = NoAccesses
  /\ atoms = <<>>
  /\ traj = <<>>
  /\ tokens = <<>>
  /\ token_ends = <<>>
  /\ tree = NullNode
  /\ has_coord = FALSE
  /\ is_optimized = FALSE
  /\ result = <<>>
  /\ pstatus = "new"
  /\ query = <<>>
  /\ error_pos = 0
  /\ frames = <<>>

(***************************************************************************)
(* Grid specifications: actions, one per constructor.  A Grid_searcher      *)
(* built by one of these constructors searches once, in the constructor.   *)
(***************************************************************************)
\* Grid_searcher(d, sel, bon, absolute_index, periodic, dist_vec): self search
SelfSearch(d, periodic, box, hw) ==
  LET g == create_grid(d, periodic, TRUE, box, coord, AllPoints)
      grid1 == populate_grid(g, coord, AllPoints)
  IN /\ gstatus = "idle"
     /\ gcall' = [op |-> "self", cutoff |-> d, periodic |-> periodic, box |-> box,
                  hw |-> hw, N |-> g.N]
     /\ bon' = do_search_1(g, coord, AllPoints, grid1, hw)
     /\ gstatus' = "ok"
     /\ UNCHANGED <<coord, within_out>>
     /\ UNCHANGED tvars
     /\ UNCHANGED pvars

\* what a cross search over a grid that was never sized may leave in bon
UndefinedPairLists == {<<>>, <<<<0, 0>>>>}

\* Grid_searcher(d, sel1, sel2, bon, absolute_index, periodic, dist_vec): cross
\* search.  When the padded boxes do not overlap create_grid2 returns before
\* set_grid_size, and populate_grid / do_search then read NgridX, NgridY and
\* NgridZ uninitialised.
CrossSearch(d, sel1, sel2, periodic, box, hw) ==
  /\ gstatus = "idle"
  /\ UNCHANGED pvars
  /\ UNCHANGED tvars
  /\ IF ~periodic /\ no_overlap(overlap_box(d, coord, sel1, sel2))
    THEN /\ gcall' = [op |-> "cross", cutoff |-> d, periodic |-> periodic, box |-> box,
                      hw |-> hw, N |-> <<0, 0, 0>>, sel1 |-> sel1, sel2 |-> sel2]
         /\ bon' \in UndefinedPairLists
         /\ gstatus' = "undefined"
         /\ UNCHANGED <<coord, within_out>>
    ELSE LET g == create_grid2(d, periodic, TRUE, box, coord, sel1, sel2)
             grid1 == populate_grid(g, coord, sel1)
             grid2 == populate_grid(g, coord, sel2)
         IN /\ gcall' = [op |-> "cross", cutoff |-> d, periodic |-> periodic, box |-> box,
                         hw |-> hw, N |-> g.N, sel1 |-> sel1, sel2 |-> sel2]
            /\ bon' = do_search_2(g, coord, sel1, sel2, grid1, grid2, hw)
            /\ gstatus' = "ok"
            /\ UNCHANGED <<coord, within_out>>

\* Grid_searcher(d, src, target, bon, include_self, absolute_index, periodic)
WithinSearch(d, src, target, include_self, periodic, box) ==
  /\ gstatus = "idle"
  /\ gcall' = [op |-> "within", cutoff |-> d, periodic |-> periodic, box |-> box,
               src |-> src, target |-> target, include_self |-> include_self]
  /\ within_out' = within_constructor(d, periodic, TRUE, include_self, box, coord,
                                      src, target, within_out)
  /\ gstatus' = "ok"
  /\ UNCHANGED <<coord, bon>>
  /\ UNCHANGED tvars
  /\ UNCHANGED pvars

Cutoffs == 1..MaxCutoff
Threads == 1..MaxThreads

\* the periodicity flag of a call with the box of the frame: the box does not
\* enter a non-periodic search, so one box stands for all there
Geometries ==
  {[periodic |-> FALSE, box |-> Rotate(<<MaxX, MaxY + 1, 1>>, RotationOf(coord))]}
    \cup {[periodic |-> TRUE, box |-> b] : b \in Boxes(RotationOf(coord))}

SelfSearchStep ==
  \E d \in Cutoffs, geo \in Geometries, hw \in Threads :
    SelfSearch(d, geo.periodic, geo.box, hw)

\* the two selections of a cross search: a split of the point store in two
CrossSearchStep ==
  \E d \in Cutoffs, geo \in Geometries, hw \in Threads,
     sel1 \in SubSelections, sel2 \in SubSelections :
    /\ Elems(sel1) \cap Elems(sel2) = {}
    /\ Elems(sel1) \cup Elems(sel2) = Elems(AllPoints)
    /\ CrossSearch(d, sel1, sel2, geo.periodic, geo.box, hw)

\* the source of a within search is the whole point store, as in the
\* evaluation of "within d of E" without a subspace
WithinSearchStep ==
  \E d \in Cutoffs, geo \in Geometries, target \in SubSelections, include_self \in BOOLEAN :
    WithinSearch(d, AllPoints, target, include_self, geo.periodic, geo.box)

PairNext == SelfSearchStep \/ CrossSearchStep
SpecPairs == GridInit /\ [][PairNext]_vars

WithinNext == WithinSearchStep
SpecWithin == GridInit /\ [][WithinNext]_vars


\* the selection strings compiled in the parser specification.  kind tells the
\* shape of the text: "not" is not a, "and" is a and b, "dangling" is a followed
\* by a logical operator with no right operand
Queries == <<
  \* name CA
  [text |-> <<"n", "a", "m", "e", " ", "C", "A">>,
   kind |-> "plain",
   a |-> <<>>,
   b |-> <<>>],
  \* name CA CA
  [text |-> <<"n", "a", "m", "e", " ", "C", "A", " ", "C", "A">>,
   kind |-> "plain",
   a |-> <<>>,
   b |-> <<>>],
  \* name CA C.
  [text |-> <<"n", "a", "m", "e", " ", "C", "A", " ", "C", ".">>,
   kind |-> "plain",
   a |-> <<>>,
   b |-> <<>>],
  \* index 1 1
  [text |-> <<"i", "n", "d", "e", "x", " ", "1", " ", "1">>,
   kind |-> "plain",
   a |-> <<>>,
   b |-> <<>>],
  \* resid 1-2 2
  [text |-> <<"r", "e", "s", "i", "d", " ", "1", "-", "2", " ", "2">>,
   kind |-> "plain",
   a |-> <<>>,
   b |-> <<>>],
  \* by residue name CB
  [text |-> <<"b", "y", " ", "r", "e", "s", "i", "d", "u", "e", " ", "n", "a", "m", "e", " ",
              "C", "B">>,
   kind |-> "plain",
   a |-> <<>>,
   b |-> <<>>],
  \* x > beta
  [text |-> <<"x", " ", ">", " ", "b", "e", "t", "a">>,
   kind |-> "plain",
   a |-> <<>>,
   b |-> <<>>],
  \* x * -1 < -1
  [text |-> <<"x", " ", "*", " ", "-", "1", " ", "<", " ", "-", "1">>,
   kind |-> "plain",
   a |-> <<>>,
   b |-> <<>>],
  \* within 1 of name CB
  [text |-> <<"w", "i", "t", "h", "i", "n", " ", "1", " ", "o", "f", " ", "n", "a", "m", "e",
              " ", "C", "B">>,
   kind |-> "plain",
   a |-> <<>>,
   b |-> <<>>],
  \* within 1 pbc of name CB
  [text |-> <<"w", "i", "t", "h", "i", "n", " ", "1", " ", "p", "b", "c", " ", "o", "f", " ",
              "n", "a", "m", "e", " ", "C", "B">>,
   kind |-> "plain",
   a |-> <<>>,
   b |-> <<>>],
  \* x > 1 or name CB
  [text |-> <<"x", " ", ">", " ", "1", " ", "o", "r", " ", "n", "a", "m", "e", " ", "C", "B">>,
   kind |-> "plain",
   a |-> <<>>,
   b |-> <<>>],
  \* name CA and
  [text |-> <<"n", "a", "m", "e", " ", "C", "A", " ", "a", "n", "d">>,
   kind |-> "dangling",
   a |-> <<"n", "a", "m", "e", " ", "C", "A">>,
   b |-> <<>>],
  \* not name CA
  [text |-> <<"n", "o", "t", " ", "n", "a", "m", "e", " ", "C", "A">>,
   kind |-> "not",
   a |-> <<"n", "a", "m", "e", " ", "C", "A">>,
   b |-> <<>>],
  \* not name ZZ
  [text |-> <<"n", "o", "t", " ", "n", "a", "m", "e", " ", "Z", "Z">>,
   kind |-> "not",
   a |-> <<"n", "a", "m", "e", " ", "Z", "Z">>,
   b |-> <<>>],
  \* not all
  [text |-> <<"n", "o", "t", " ", "a", "l", "l">>,
   kind |-> "not",
   a |-> <<"a", "l", "l">>,
   b |-> <<>>],
  \* not x > 1
  [text |-> <<"n", "o", "t", " ", "x", " ", ">", " ", "1">>,
   kind |-> "not",
   a |-> <<"x", " ", ">", " ", "1">>,
   b |-> <<>>],
  \* name CB and by residue x > 1
  [text |-> <<"n", "a", "m", "e", " ", "C", "B", " ", "a", "n", "d", " ", "b", "y", " ", "r",
              "e", "s", "i", "d", "u", "e", " ", "x", " ", ">", " ", "1">>,
   kind |-> "and",
   a |-> <<"n", "a", "m", "e", " ", "C", "B">>,
   b |-> <<"b", "y", " ", "r", "e", "s", "i", "d", "u", "e", " ", "x", " ", ">", " ", "1">>],
  \* x > 1 and name CA
  [text |-> <<"x", " ", ">", " ", "1", " ", "a", "n", "d", " ", "n", "a", "m", "e", " ", "C",
              "A">>,
   kind |-> "and",
   a |-> <<"x", " ", ">", " ", "1">>,
   b |-> <<"n", "a", "m", "e", " ", "C", "A">>],
  \* x > 0 and (y > 0 and name CB CA)
  [text |-> <<"x", " ", ">", " ", "0", " ", "a", "n", "d", " ", "(", "y", " ", ">", " ", "0",
              " ", "a", "n", "d", " ", "n", "a", "m", "e", " ", "C", "B", " ", "C", "A", ")">>,
   kind |-> "and",
   a |-> <<"x", " ", ">", " ", "0">>,
   b |-> <<"(", "y", " ", ">", " ", "0", " ", "a", "n", "d", " ", "n", "a", "m", "e", " ", "C",
           "B", " ", "C", "A", ")">>],
  \* name CA and within 1 of name CB
  [text |-> <<"n", "a", "m", "e", " ", "C", "A", " ", "a", "n", "d", " ", "w", "i", "t", "h",
              "i", "n", " ", "1", " ", "o", "f", " ", "n", "a", "m", "e", " ", "C", "B">>,
   kind |-> "and",
   a |-> <<"n", "a", "m", "e", " ", "C", "A">>,
   b |-> <<"w", "i", "t", "h", "i", "n", " ", "1", " ", "o", "f", " ", "n", "a", "m", "e", " ",
           "C", "B">>],
  \* resname ALA and x < 2
  [text |-> <<"r", "e", "s", "n", "a", "m", "e", " ", "A", "L", "A", " ", "a", "n", "d", " ",
              "x", " ", "<", " ", "2">>,
   kind |-> "and",
   a |-> <<"r", "e", "s", "n", "a", "m", "e", " ", "A", "L", "A">>,
   b |-> <<"x", " ", "<", " ", "2">>] >>

(***************************************************************************)
(* Parser specification: inputs                                            *)
(***************************************************************************)
Atom(name, resname, resid, resindex, beta) ==
  [name |-> name, resname |-> resname, tag |-> <<>>, chain |-> "A", resid |-> resid,
   resindex |-> resindex, beta |-> beta, occupancy |-> 1]

\* the attribute arrays of the systems: three atoms in two residues
Topologies ==
  { <<Atom(<<"C", "A">>, <<"A", "L", "A">>, 1, 0, 0),
      Atom(<<"C", "B">>, <<"A", "L", "A">>, 1, 0, 1),
      Atom(<<"C", "A">>, <<"G", "L", "Y">>, 2, 1, 2)>>,
    <<Atom(<<"C", "B">>, <<"A", "L", "A">>, 1, 0, 2),
      Atom(<<"C", "A">>, <<"G", "L", "Y">>, 2, 1, 1),
      Atom(<<"C", "B">>, <<"G", "L", "Y">>, 2, 1, 0)>> }

\* the k-th place an atom can be at: on the x axis, or one step off it
FramePosition(k) ==
  IF k <= MaxCoord + 1 THEN <<k - 1, 0, 0>> ELSE <<1, 1, 0>>

\* the coordinates of a frame: every atom at one of the places
Frames == {[i \in 1..3 |-> FramePosition(f[i])] : f \in [1..3 -> 1..(MaxCoord + 2)]}

\* a later frame of the same atoms: mirrored along x, or the atoms moved round
Mirror(c) == [i \in DOMAIN c |-> <<MaxCoord - c[i][1], c[i][2], c[i][3]>>]

Cycle(c) == [i \in DOMAIN c |-> c[(i % Len(c)) + 1]]

Trajectories == {<<c, Mirror(c)>> : c \in Frames} \cup {<<c, Cycle(c)>> : c \in Frames}

\* the extents of the (orthogonal) periodic box of every frame
SysBox == <<MaxCoord + 1, 2, 1>>

\* the system as apply(system, fr, result) sees it
System(fr) == [atoms |-> atoms, coord |-> traj[fr + 1], box |-> SysBox]

\* the Selection_parser object
Parser ==
  [tokens |-> tokens, token_ends |-> token_ends, tree |-> tree, has_coord |-> has_coord,
   is_optimized |-> is_optimized]

\* Selection_parser(): has_coord = false, the tree is null; is_optimized is
\* not initialised
ParserInit ==
  /\ atoms \in Topologies
  /\ traj \in Trajectories
  /\ tokens = <<>>
  /\ token_ends = <<>>
  /\ tree = NullNode
  /\ has_coord = FALSE
  /\ is_optimized \in BOOLEAN
  /\ result = <<>>
  /\ pstatus = "new"
  /\ query = <<>>
  /\ error_pos = 0
  /\ frames = <<>>
  /\ coord = <<>>
  /\ gcall = NoCall
  /\ bon = <<>>
  /\ within_out = <<>>
  /\ gstatus = "idle"
  /\ workers = <<>>
  /\ used = {}
  /\ visited = {}
  /\ accesses = NoAccesses

(***************************************************************************)
(* Parser specification: actions.  A parser compiles one string and is     *)
(* then applied to frames of its system; it is not used again after a call *)
(* that threw or ran into undefined behaviour.                             *)
(***************************************************************************)
\* what result may hold after a call that ran into undefined behaviour
UndefinedResults == {<<>>, <<0>>}

CreateAst(sel_str) ==
  /\ pstatus = "new"
  /\ \E c \in {create_ast(Parser, sel_str)} :
       /\ query' = sel_str
       /\ tokens' = c.p.tokens
       /\ token_ends' = c.p.token_ends
       /\ tree' = c.p.tree
       /\ has_coord' = c.p.has_coord
       /\ is_optimized' = c.p.is_optimized
       /\ pstatus' = IF c.st = "ok" THEN "compiled" ELSE c.st
       /\ error_pos' = IF c.st = "syntax_error" THEN c.p.token_ends[c.pos + 1] ELSE 0
  /\ UNCHANGED <<atoms, traj, result, frames>>
  /\ UNCHANGED gvars

Apply(fr) ==
  /\ pstatus \in {"compiled", "applied"}
  /\ Len(frames) < MaxApplies
  /\ frames' = Append(frames, fr)
  /\ \E r \in {apply(Parser, System(fr))} :
       /\ tree' = r.p.tree
       /\ is_optimized' = r.p.is_optimized
       /\ pstatus' = IF r.st = "ok" THEN "applied" ELSE r.st
       /\ IF r.st = "undefined" THEN result' \in UndefinedResults ELSE result' = r.result
  /\ UNCHANGED <<atoms, traj, tokens, token_ends, has_coord, query, error_pos>>
  /\ UNCHANGED gvars

CreateAstStep == \E i \in DOMAIN Queries : CreateAst(Queries[i].text)

ApplyStep == \E fr \in 0..(Len(traj) - 1) : Apply(fr)

ParserNext == CreateAstStep \/ ApplyStep
SpecParser == ParserInit /\ [][ParserNext]_vars

(***************************************************************************)
(* Brute-force references of the pair searches                             *)
(***************************************************************************)
\* the distance test of the reference: plain Euclidean, or minimum image
RefClose(periodic, box, p, q, d) ==
  IF periodic THEN distance_squared(box, p, q) <= d * d
  ELSE squaredNorm(p, q) <= d * d

\* how often the unordered pair {i, j} occurs in the pair list
Occurrences(list, i, j) == Count(list, <<i, j>>) + (IF i = j THEN 0 ELSE Count(list, <<j, i>>))

\* the pair list of a self search is the brute-force result: each unordered
\* pair of distinct points within the cutoff once, nothing else
SelfExact ==
  /\ \A k \in DOMAIN bon : bon[k][1] \in Elems(AllPoints) /\ bon[k][2] \in Elems(AllPoints)
  /\ \A i \in Elems(AllPoints) : Count(bon, <<i, i>>) = 0
  /\ \A i \in Elems(AllPoints), j \in Elems(AllPoints) :
       i < j => Occurrences(bon, i, j) =
                  (IF RefClose(gcall.periodic, gcall.box, coord[i + 1], coord[j + 1],
                               gcall.cutoff) THEN 1 ELSE 0)

\* the pair list of a cross search is the brute-force result: each (a, b) with
\* a in sel1, b in sel2 within the cutoff once, in this order, nothing else
CrossExact ==
  /\ \A k \in DOMAIN bon : bon[k][1] \in Elems(gcall.sel1) /\ bon[k][2] \in Elems(gcall.sel2)
  /\ \A a \in Elems(gcall.sel1), b \in Elems(gcall.sel2) :
       Count(bon, <<a, b>>) =
         (IF RefClose(gcall.periodic, gcall.box, coord[a + 1], coord[b + 1],
                      gcall.cutoff) THEN 1 ELSE 0)

\* C4: the non-periodic self search returns exactly the brute-force result:
\* every unordered pair of distinct points with Euclidean distance <= cutoff
\* once, no pair farther apart, no point paired with itself, for every grid
\* size the sizing step chooses and both the serial and the parallel branch.
C4_SelfSearchBruteForce ==
  (gcall.op = "self" /\ ~gcall.periodic) => SelfExact

\* a non-periodic self search over a grid of several cells, run by two
\* workers, that found a pair of points at different places
C4_Witness ==
  /\ gcall.op = "self" /\ ~gcall.periodic
  /\ gcall.N[max_dim(gcall.N)] >= 3 /\ gcall.hw >= 2
  /\ \E k \in DOMAIN bon : coord[bon[k][1] + 1] # coord[bon[k][2] + 1]

C6_CrossSearchBruteForce ==
  (gcall.op = "cross" /\ ~gcall.periodic /\ gstatus = "ok") => CrossExact


\* C3: the distance test of "within d of E" is inclusive: every point whose
\* distance to some point selected by E is <= d, exactly d included, is in the
\* result, also when it lies on a face of the box the search grid is built
\* over.  E's points are the target, the whole point store is the source, and
\* the search includes the target itself, as the evaluation of within does.
C3_WithinInclusive ==
  (gcall.op = "within" /\ gcall.include_self) =>
    \A i \in Elems(gcall.src) :
      (\E t \in Elems(gcall.target) :
         RefClose(gcall.periodic, gcall.box, coord[i + 1], coord[t + 1], gcall.cutoff))
      => i \in Elems(within_out)

(***************************************************************************)
(* References of the parser claims                                         *)
(***************************************************************************)
\* the entry of Queries for the compiled string
QueryInfo == CHOOSE q \in Elems(Queries) : q.text = query

\* the frame of the last apply call
LastFrame == frames[Len(frames)]

\* a parser just constructed (create_ast sets is_optimized before it is read)
FreshParser ==
  [tokens |-> <<>>, token_ends |-> <<>>, tree |-> NullNode, has_coord |-> FALSE,
   is_optimized |-> FALSE]

\* a fresh parser compiles sel_str and is applied once, to frame fr
Fresh(sel_str, fr) ==
  LET c == create_ast(FreshParser, sel_str)
      r == apply(c.p, System(fr))
  IN IF c.st # "ok" THEN [st |-> c.st, result |-> <<>>]
     ELSE [st |-> r.st, result |-> r.result]

\* the tree of sel_str as parsed, evaluated at frame fr without optimization
Unoptimized(sel_str, fr) ==
  LET c == create_ast(FreshParser, sel_str)
      r == eval_node(System(fr), c.p.tree, NoSubspace)
  IN IF c.st # "ok" THEN [st |-> c.st, result |-> <<>>]
     ELSE IF r.st # "ok" THEN [st |-> r.st, result |-> <<>>]
     ELSE [st |-> "ok", result |-> sort(r.res)]

\* the indices 0..N-1 not in idx, ascending
Complement(idx) ==
  SelectSeq(Range(0, Len(atoms) - 1), LAMBDA j : j \notin Elems(idx))

RECURSIVE HasPrecomputed(_)
\* the tree holds a node frozen by the optimization pass
HasPrecomputed(node) ==
  \/ node.code = "TOK_PRECOMPUTED"
  \/ \E i \in DOMAIN node.children :
       IsNode(node.children[i]) /\ HasPrecomputed(node.children[i])

\* C1: the index list apply returns is strictly ascending (sorted, no index
\* twice), also when several items of one keyword list match the same point.
C1_ResultStrictlyAscending ==
  pstatus = "applied" => \A k \in 1..(Len(result) - 1) : result[k] < result[k + 1]

\* C2: compiling a string that ends in a logical operator with no right
\* operand raises a syntax error whose position is at or after the dangling
\* operator; create_ast never completes with the tree of the prefix.
C2_DanglingOperatorRejected ==
  (pstatus # "new" /\ QueryInfo.kind = "dangling") =>
    /\ pstatus = "syntax_error"
    /\ error_pos >= Len(QueryInfo.a) + 1

\* C7: "not E" returns exactly {0..N-1} minus the result of E, ascending, also
\* when E selects no point and when E selects every point.
C7_NotIsComplement ==
  (pstatus # "new" /\ QueryInfo.kind = "not" /\ frames # <<>>) =>
    LET e == Fresh(QueryInfo.a, LastFrame)
    IN e.st = "ok" => (pstatus = "applied" /\ result = Complement(e.result))

\* C8: the result of "A and B" is the set intersection of the result of A
\* evaluated alone and the result of B evaluated alone: passing the result of
\* A as the subspace of B never changes which points are selected.
C8_AndIsIntersection ==
  (pstatus # "new" /\ QueryInfo.kind = "and" /\ frames # <<>>) =>
    LET a == Fresh(QueryInfo.a, LastFrame)
        b == Fresh(QueryInfo.b, LastFrame)
    IN (a.st = "ok" /\ b.st = "ok") =>
         (pstatus = "applied" /\ Elems(result) = Elems(a.result) \cap Elems(b.result))

\* C9: the optimization pass is semantics-preserving: the result of apply on
\* the optimized tree equals the result of evaluating the tree as parsed.
C9_OptimizationPreserves ==
  (pstatus # "new" /\ frames # <<>>) =>
    LET u == Unoptimized(query, LastFrame)
    IN u.st = "ok" => (pstatus = "applied" /\ result = u.result)

\* C10: after any sequence of apply calls on one compiled coordinate-dependent
\* query, the last call ends as a call on a freshly compiled copy of the query
\* at the same frame ends: with the same result, or with the same failure.
C10_ApplyEqualsFreshCompile ==
  (has_coord /\ frames # <<>>) =>
    LET f == Fresh(query, LastFrame)
    IN /\ pstatus = (IF f.st = "ok" THEN "applied" ELSE f.st)
       /\ pstatus = "applied" => result = f.result

\* a second apply on a tree with a frozen node, at another frame than the
\* first, whose result differs from what the query selects at the first frame
C10_Witness ==
  /\ has_coord /\ Len(frames) = 2 /\ frames[1] # frames[2]
  /\ pstatus = "applied"
  /\ HasPrecomputed(tree)
  /\ result # <<>>
  /\ result # Fresh(query, frames[1]).result

(***************************************************************************)
(* Integer lists and ranges: resid, resindex and index with a range a-b,   *)
(* a to b, or the values a, a+1, ..., b listed                             *)
(***************************************************************************)
\* the largest end of a range (the smallest is -1: a value the language has
\* no spelling for)
MaxRangeEnd == 3

RECURSIVE nat_text(_)
\* the decimal spelling of a natural number
nat_text(n) ==
  IF n < 10 THEN <<Digits[n + 1]>> ELSE nat_text(n \div 10) \o <<Digits[(n % 10) + 1]>>

\* the decimal spelling of an integer
int_text(n) == IF n < 0 THEN <<"-">> \o nat_text(-n) ELSE nat_text(n)

RECURSIVE list_text(_, _)
\* the values a, a+1, ..., b separated by blanks
list_text(a, b) ==
  IF a = b THEN int_text(a) ELSE int_text(a) \o <<" ">> \o list_text(a + 1, b)

RangeKeywords == {"resid", "resindex", "index"}

RangeForms == {"dash", "to", "list"}

keyword_text(kw) ==
  IF kw = "resid" THEN <<"r", "e", "s", "i", "d">>
  ELSE IF kw = "resindex" THEN <<"r", "e", "s", "i", "n", "d", "e", "x">>
  ELSE <<"i", "n", "d", "e", "x">>

\* the selection string of a range query
RangeText(kw, a, b, form) ==
  keyword_text(kw) \o <<" ">> \o
    (IF form = "dash" THEN int_text(a) \o <<"-">> \o int_text(b)
     ELSE IF form = "to" THEN int_text(a) \o <<" ", "t", "o", " ">> \o int_text(b)
     ELSE list_text(a, b))

RangeInputs ==
  {[kw |-> kw, a |-> a, b |-> b, form |-> form] :
     kw \in RangeKeywords, a \in (-1)..MaxRangeEnd, b \in (-1)..MaxRangeEnd,
     form \in RangeForms}

\* ranges do not read coordinates: one trajectory stands for all
RangeInit == ParserInit /\ traj[1] = [i \in 1..3 |-> <<0, 0, 0>>]

CompileRangeStep ==
  \E q \in RangeInputs : q.a <= q.b /\ CreateAst(RangeText(q.kw, q.a, q.b, q.form))

RangeNext == CompileRangeStep \/ ApplyStep
SpecRanges == RangeInit /\ [][RangeNext]_vars

\* the range query that was compiled
RangeQuery == CHOOSE q \in RangeInputs : q.a <= q.b /\ RangeText(q.kw, q.a, q.b, q.form) = query

\* the atoms whose attribute lies in a..b, both ends included
InRange(kw, a, b) ==
  {i \in 0..(Len(atoms) - 1) :
     LET v == IF kw = "index" THEN i ELSE atoms[i + 1][kw]
     IN a <= v /\ v <= b}

\* C11: for all integers a <= b the queries "kw a-b", "kw a to b" and
\* "kw a a+1 ... b" end alike and select the same set of points, the points
\* whose attribute lies in a..b with both ends included, for kw = resid,
\* resindex and index.
C11_RangeFormsAgree ==
  pstatus # "new" =>
    LET q == RangeQuery
    IN /\ \A f \in RangeForms :
            (create_ast(FreshParser, RangeText(q.kw, q.a, q.b, f)).st = "ok")
              <=> (pstatus \in {"compiled", "applied"})
       /\ q.a >= 0 => pstatus \in {"compiled", "applied"}
       /\ frames # <<>> =>
            /\ pstatus = "applied"
            /\ Elems(result) = InRange(q.kw, q.a, q.b)
            /\ \A f \in RangeForms :
                 LET o == Fresh(RangeText(q.kw, q.a, q.b, f), LastFrame)
                 IN o.st = "ok" /\ Elems(o.result) = Elems(result)

\* a range a-b with a < b was applied and selected atoms at both of its ends
C11_Witness ==
  /\ pstatus = "applied"
  /\ \E q \in RangeInputs :
       /\ q.a < q.b /\ q.form = "dash" /\ q.kw = "resid"
       /\ query = RangeText(q.kw, q.a, q.b, q.form)
       /\ \E i \in Elems(result) : atoms[i + 1].resid = q.a
       /\ \E i \in Elems(result) : atoms[i + 1].resid = q.b

(***************************************************************************)
(* The worker threads of the within search.  A step of a worker is one     *)
(* call of search_in_pair_of_cells that gets past its first return; the    *)
(* calls with an empty source or target cell touch nothing shared.         *)
(***************************************************************************)
RECURSIVE within_steps(_, _, _, _)
\* the calls <<source cell, target cell>> that do_part_within_fast makes over
\* the cells todo, in order: the cell against itself, then against its nlist
within_steps(g, grid1, grid2, todo) ==
  IF todo = <<>> THEN <<>>
  ELSE LET sc == Head(todo)
           tcs == <<sc>> \o get_nlist(g, sc)
       IN SelectSeq([k \in DOMAIN tcs |-> <<sc, tcs[k]>>],
                    LAMBDA p : grid1[p[1]] # <<>> /\ grid2[p[2]] # <<>>)
            \o within_steps(g, grid1, grid2, Tail(todo))

\* the searcher of the running within call
WithinGrid ==
  within_grid(gcall.cutoff, gcall.periodic, TRUE, gcall.box, coord, gcall.src, gcall.target)

\* the within constructor up to the launch of the workers (or, with one
\* worker, up to the serial call of do_part_within_fast)
WithinLaunch(d, src, target, include_self, periodic, box, hw) ==
  /\ gstatus = "idle"
  /\ gcall' = [op |-> "within", cutoff |-> d, periodic |-> periodic, box |-> box,
               src |-> src, target |-> target, include_self |-> include_self, hw |-> hw]
  /\ IF ~periodic /\ no_overlap(overlap_box(d, coord, src, target))
       THEN /\ gstatus' = "ok"
            /\ UNCHANGED <<within_out, workers, used, accesses>>
       ELSE \E g \in {within_grid(d, periodic, TRUE, box, coord, src, target)} :
            \E grid1 \in {populate_grid(g, coord, src)} :
            \E grid2 \in {populate_grid(g, coord, target)} :
            \E dim \in {max_dim(g.N)}, nt \in {num_threads(g.N, hw)} :
            \E parts \in {IF nt > 1 THEN thread_parts(g.N[dim], nt)
                           ELSE <<(<<0, g.N[dim]>>)>>} :
               /\ workers' = [i \in DOMAIN parts |->
                                [b |-> parts[i][1], e |-> parts[i][2], bon |-> <<>>,
                                 todo |-> within_steps(g, grid1, grid2,
                                            part_cells(g.N, dim, parts[i][1], parts[i][2]))]]
               /\ used' = {}
               /\ accesses' = NoAccesses
               /\ within_out' = <<>>
               /\ gstatus' = "running"
  /\ UNCHANGED <<coord, bon, visited>>
  /\ UNCHANGED pvars

\* worker w runs its next call of search_in_pair_of_cells
WithinWorker(w) ==
  /\ gstatus = "running"
  /\ gcall.op = "within"
  /\ workers[w].todo # <<>>
  /\ \E g \in {WithinGrid} :
     \E grid1 \in {populate_grid(g, coord, gcall.src)} :
     \E grid2 \in {populate_grid(g, coord, gcall.target)} :
     \E sc \in {Head(workers[w].todo)[1]}, tc \in {Head(workers[w].todo)[2]} :
     \E hit \in {search_in_pair_of_cells(g, coord, gcall.src, gcall.target,
                                          grid1, grid2, sc, tc, used)} :
        /\ used' = used \cup hit
        /\ accesses' = [accesses EXCEPT
                          !.loads = @ \cup {<<w, ind>> : ind \in Elems(grid1[sc])},
                          !.stores = @ \cup {<<w, ind>> : ind \in hit},
                          !.cleared = @ \cup (used \ (used \cup hit))]
  /\ workers' = [workers EXCEPT ![w].todo = Tail(@)]
  /\ UNCHANGED <<coord, gcall, bon, within_out, gstatus, visited>>
  /\ UNCHANGED pvars

\* the workers are joined: the rest of the within constructor
WithinJoin ==
  /\ gstatus = "running"
  /\ gcall.op = "within"
  /\ \A w \in DOMAIN workers : workers[w].todo = <<>>
  /\ within_out' = used_to_result(WithinGrid, gcall.src, gcall.target, used,
                                  gcall.include_self)
  /\ gstatus' = "ok"
  /\ UNCHANGED <<coord, gcall, bon, workers, used, visited, accesses>>
  /\ UNCHANGED pvars

\* the call that the evaluation of "within" makes (include_self is true)
WithinLaunchStep ==
  /\ gstatus = "idle"
  /\ \E d \in Cutoffs, geo \in Geometries, target \in SubSelections, hw \in Threads :
       WithinLaunch(d, AllPoints, target, TRUE, geo.periodic, geo.box, hw)

WithinWorkerStep == \E w \in DOMAIN workers : WithinWorker(w)

WithinThreadsNext == WithinLaunchStep \/ WithinWorkerStep \/ WithinJoin
SpecWithinThreads == GridInit /\ [][WithinThreadsNext]_vars

\* the flags of the serial search: one scan over all cells
SerialFlags ==
  LET g == WithinGrid
  IN do_part_within_fast(g, coord, gcall.src, gcall.target,
                         populate_grid(g, coord, gcall.src),
                         populate_grid(g, coord, gcall.target), CellSeq(g.N), {})

\* the source points within the cutoff of some target point
CloseToTarget ==
  {i \in 0..(Len(gcall.src) - 1) :
     \E t \in Elems(gcall.target) :
       RefClose(gcall.periodic, gcall.box, coord[gcall.src[i + 1] + 1], coord[t + 1],
                gcall.cutoff)}

\* worker w owns the flag of source point ind: the cell of the point lies in
\* the range of the worker
OwnsFlag(w, ind) ==
  LET g == WithinGrid
      c == cell_of(g, XYZ(coord, gcall.src, ind))
      dim == max_dim(g.N)
  IN workers[w].b <= c[dim] /\ c[dim] < workers[w].e

\* a within search with worker threads
WithinParallel == gcall.op = "within" /\ Len(workers) > 1

\* each flag is read and written by its owner only
C12_Ownership ==
  WithinParallel =>
    \A a \in accesses.loads \cup accesses.stores : OwnsFlag(a[1], a[2])

\* no flag went from true to false
C12_Monotonic == WithinParallel => accesses.cleared = {}

\* the flags after the join are those of the serial search
C12_JoinIsSerial == (WithinParallel /\ gstatus = "ok") => used = SerialFlags

\* C12: in the parallel within search, under every interleaving of the
\* workers, a used flag is written only by the worker whose axis range holds
\* the cell of the source point, a flag only goes from false to true, and after
\* the join the flagged source points are those of the serial search, exactly
\* the source points within the cutoff of some target point.
C12_ParallelWithin ==
  /\ C12_Ownership
  /\ C12_Monotonic
  /\ C12_JoinIsSerial
  /\ (WithinParallel /\ gstatus = "ok") => used = CloseToTarget

\* a parallel search is joined after each worker has set a flag
C12_Parallel ==
  /\ WithinParallel
  /\ gstatus = "ok"
  /\ \A w \in DOMAIN workers : \E a \in accesses.stores : a[1] = w

(***************************************************************************)
(* The worker threads of the pair search (do_part1, do_part2).  A step of  *)
(* a worker is the scan of one cell: the central cell, the store to        *)
(* visited, and the neighbour cells.                                       *)
(***************************************************************************)
\* the searcher of the running pair search
PairGrid ==
  IF gcall.op = "self"
    THEN create_grid(gcall.cutoff, gcall.periodic, TRUE, gcall.box, coord, gcall.sel1)
    ELSE create_grid2(gcall.cutoff, gcall.periodic, TRUE, gcall.box, coord,
                      gcall.sel1, gcall.sel2)

\* the constructor of a pair search and do_search up to the launch of the
\* workers (or, with one worker, up to the serial loops)
PairLaunch(op, d, sel1, sel2, periodic, box, hw) ==
  /\ gstatus = "idle"
  /\ IF op = "cross" /\ ~periodic /\ no_overlap(overlap_box(d, coord, sel1, sel2))
       THEN /\ gcall' = [op |-> op, cutoff |-> d, periodic |-> periodic, box |-> box,
                         hw |-> hw, N |-> <<0, 0, 0>>, sel1 |-> sel1, sel2 |-> sel2]
            /\ bon' \in UndefinedPairLists
            /\ gstatus' = "undefined"
            /\ UNCHANGED <<workers, visited, accesses>>
       ELSE \E g \in {IF op = "self"
                          THEN create_grid(d, periodic, TRUE, box, coord, sel1)
                          ELSE create_grid2(d, periodic, TRUE, box, coord, sel1, sel2)} :
            \E dim \in {max_dim(g.N)}, nt \in {num_threads(g.N, hw)} :
            \E parts \in {IF nt = 1 THEN <<(<<0, g.N[dim]>>)>>
                           ELSE thread_parts(g.N[dim], nt)} :
               /\ gcall' = [op |-> op, cutoff |-> d, periodic |-> periodic, box |-> box,
                            hw |-> hw, N |-> g.N, sel1 |-> sel1, sel2 |-> sel2]
               /\ workers' = [i \in DOMAIN parts |->
                                [b |-> parts[i][1], e |-> parts[i][2], bon |-> <<>>,
                                 todo |-> part_cells(g.N, dim, parts[i][1], parts[i][2])]]
               /\ visited' = {}
               /\ accesses' = NoAccesses
               /\ bon' = <<>>
               /\ gstatus' = "running"
  /\ UNCHANGED <<coord, within_out, used>>
  /\ UNCHANGED pvars

\* the unordered pair of two cells
CellPair(c, n) == {c, n}

\* the pairs worker w finds in the scan of cell c against the neighbours nb
pairs_of_cell(g, grid1, grid2, c, nb) ==
  IF gcall.op = "self"
    THEN get_central_1(g, coord, gcall.sel1, grid1, c)
           \o Concat([k \in DOMAIN nb |-> get_side_1(g, coord, gcall.sel1, grid1, c, nb[k])])
    ELSE get_central_2(g, coord, gcall.sel1, gcall.sel2, grid1, grid2, c)
           \o Concat([k \in DOMAIN nb |->
                get_side_2(g, coord, gcall.sel1, gcall.sel2, grid1, grid2, c, nb[k])])

\* worker w scans its next cell
PairWorker(w) ==
  /\ gstatus = "running"
  /\ gcall.op \in {"self", "cross"}
  /\ workers[w].todo # <<>>
  /\ \E g \in {PairGrid} :
     \E grid1 \in {populate_grid(g, coord, gcall.sel1)} :
     \E grid2 \in {populate_grid(g, coord, gcall.sel2)} :
     \E dim \in {max_dim(g.N)}, c \in {Head(workers[w].todo)} :
     \E nl \in {get_nlist(g, c)} :
     \E nb \in {part_neighbours(g, c, dim, workers[w].b, workers[w].e, visited \cup {c})} :
       /\ workers' = [workers EXCEPT ![w].todo = Tail(@),
                                     ![w].bon = @ \o pairs_of_cell(g, grid1, grid2, c, nb)]
       /\ visited' = visited \cup {c}
       /\ accesses' = [accesses EXCEPT
            !.stores = @ \cup {<<w, c>>},
            !.loads = @ \cup {<<w, nl[k]>> : k \in {j \in DOMAIN nl :
                                  workers[w].b <= nl[j][dim] /\ nl[j][dim] < workers[w].e}},
            !.cleared = @ \cup (visited \ (visited \cup {c})),
            !.sides = @ \cup {<<w, CellPair(c, nb[k])>> : k \in DOMAIN nb},
            !.again = @ \cup {CellPair(c, nb[k]) : k \in {j \in DOMAIN nb :
                                  \/ \E a \in accesses.sides : a[2] = CellPair(c, nb[j])
                                  \/ \E i \in 1..(j - 1) : nb[i] = nb[j]}}]
  /\ UNCHANGED <<coord, gcall, bon, within_out, gstatus, used>>
  /\ UNCHANGED pvars

\* the workers are joined and their pair lists collected in worker order
PairJoin ==
  /\ gstatus = "running"
  /\ gcall.op \in {"self", "cross"}
  /\ \A w \in DOMAIN workers : workers[w].todo = <<>>
  /\ bon' = Concat([w \in DOMAIN workers |-> workers[w].bon])
  /\ gstatus' = "ok"
  /\ UNCHANGED <<coord, gcall, within_out, workers, used, visited, accesses>>
  /\ UNCHANGED pvars

\* the geometries of the threaded pair searches: with a thin periodic box
\* that gets 3 cells on its longest axis, so that the first and the last cell
\* of the axis are neighbours across the boundary only
PairGeometries ==
  Geometries \cup {[periodic |-> TRUE,
                    box |-> Rotate(<<MaxX + 1, MaxY, 1>>, RotationOf(coord))]}

\* the pair searches on a machine with MaxThreads hardware threads
SelfLaunchStep ==
  /\ gstatus = "idle"
  /\ \E d \in Cutoffs, geo \in PairGeometries :
       PairLaunch("self", d, AllPoints, AllPoints, geo.periodic, geo.box, MaxThreads)

CrossLaunchStep ==
  /\ gstatus = "idle"
  /\ \E d \in Cutoffs, geo \in PairGeometries, sel1 \in SubSelections, sel2 \in SubSelections :
       /\ Elems(sel1) \cap Elems(sel2) = {}
       /\ Elems(sel1) \cup Elems(sel2) = Elems(AllPoints)
       /\ PairLaunch("cross", d, sel1, sel2, geo.periodic, geo.box, MaxThreads)

PairWorkerStep == \E w \in DOMAIN workers : PairWorker(w)

PairThreadsNext == SelfLaunchStep \/ CrossLaunchStep \/ PairWorkerStep \/ PairJoin
SpecPairsThreads == GridInit /\ [][PairThreadsNext]_vars

\* the pair list of the serial search (one hardware thread) for the same call
SerialPairs ==
  LET g == PairGrid
      grid1 == populate_grid(g, coord, gcall.sel1)
      grid2 == populate_grid(g, coord, gcall.sel2)
  IN IF gcall.op = "self" THEN do_search_1(g, coord, gcall.sel1, grid1, 1)
     ELSE do_search_2(g, coord, gcall.sel1, gcall.sel2, grid1, grid2, 1)

\* two pair lists hold the same pairs the same number of times; a pair of a
\* self search is unordered
SamePairs(l1, l2) ==
  \A i \in 0..(NumPoints - 1), j \in 0..(NumPoints - 1) :
    IF gcall.op = "self" THEN Occurrences(l1, i, j) = Occurrences(l2, i, j)
    ELSE Count(l1, <<i, j>>) = Count(l2, <<i, j>>)

\* a pair search with at least 2 workers
PairsParallel == gcall.op \in {"self", "cross"} /\ Len(workers) >= 2

\* the pairs of neighbouring cells of the grid
NeighbourPairs ==
  LET g == PairGrid
      cells == Elems(CellSeq(g.N))
  IN {CellPair(q[1], q[2]) :
        q \in {p \in cells \X cells : p[2] # p[1] /\ p[2] \in Elems(get_nlist(g, p[1]))}}

\* the worker ranges are non-empty, contiguous and disjoint and cover the axis
C13_Ranges ==
  PairsParallel =>
    /\ \A w \in DOMAIN workers : workers[w].b < workers[w].e
    /\ workers[1].b = 0
    /\ workers[Len(workers)].e = gcall.N[max_dim(gcall.N)]
    /\ \A w \in 1..(Len(workers) - 1) : workers[w].e = workers[w + 1].b

\* no pair of cells is compared twice, and once joined each pair of
\* neighbouring cells was compared by one worker
C13_ComparedOnce ==
  PairsParallel =>
    /\ accesses.again = {}
    /\ \E np \in {NeighbourPairs} :
         /\ {a[2] : a \in accesses.sides} \subseteq np
         /\ gstatus = "ok" => np \subseteq {a[2] : a \in accesses.sides}

\* C13: in the parallel pair enumeration with at least 2 workers the worker
\* ranges along the longest axis are non-empty, contiguous, pairwise disjoint
\* and cover the axis; under every interleaving each pair of neighbouring cells
\* is compared by exactly one worker, the pair of the first and the last cell
\* of a periodic axis included; the concatenated pair list holds the same
\* pairs, each as often, as the serial search returns.
C13_ParallelPairs ==
  /\ C13_Ranges
  /\ C13_ComparedOnce
  /\ (PairsParallel /\ gstatus = "ok") => \E serial \in {SerialPairs} : SamePairs(bon, serial)

\* a joined periodic search with 2 workers in which the first and the last cell
\* of the axis were compared and a pair of points was found across them
C13_Witness ==
  /\ PairsParallel
  /\ gstatus = "ok"
  /\ gcall.periodic
  /\ LET dim == max_dim(gcall.N)
     IN /\ gcall.N[dim] >= 3
        /\ \E a \in accesses.sides :
             \E c \in a[2], n \in a[2] : c[dim] = 0 /\ n[dim] = gcall.N[dim] - 1
        /\ \E k \in DOMAIN bon :
             LET g == PairGrid
                 c1 == cell_of(g, coord[bon[k][1] + 1])
                 c2 == cell_of(g, coord[bon[k][2] + 1])
             IN {c1[dim], c2[dim]} = {0, gcall.N[dim] - 1}

(***************************************************************************)
(* Two-stage search: assign_to_grid, then search_within for query points   *)
(***************************************************************************)
\* Grid_searcher::assign_to_grid(d, sel, absolute_index, periodic)
AssignToGrid(d, sel, periodic, box) ==
  /\ gstatus = "idle"
  /\ \E g \in {create_grid(d, periodic, TRUE, box, coord, sel)} :
       gcall' = [op |-> "assign", cutoff |-> d, periodic |-> periodic, box |-> box,
                 sel |-> sel, grid |-> g, grid1 |-> populate_grid(g, coord, sel), p |-> <<>>,
                 queries |-> 0]
  /\ gstatus' = "ok"
  /\ UNCHANGED <<coord, bon, within_out>>
  /\ UNCHANGED tvars
  /\ UNCHANGED pvars

\* Grid_searcher::search_within(coord, bon) on the grid of assign_to_grid
SearchWithinPoint(p) ==
  /\ gstatus = "ok"
  /\ gcall.op \in {"assign", "point"}
  /\ gcall' = [gcall EXCEPT !.op = "point", !.p = p, !.queries = @ + 1]
  /\ within_out' = search_within_point(gcall.grid, coord, gcall.sel, gcall.grid1, p)
  /\ UNCHANGED <<coord, bon, gstatus>>
  /\ UNCHANGED tvars
  /\ UNCHANGED pvars

\* the largest coordinate of the points of a two-stage search, which lie on
\* the x axis
MaxLine == 9

\* the largest cutoff of a two-stage search
MaxLineCutoff == 3

\* the query points of one grid
MaxQueries == 2

\* the point stores of the two-stage search: NumPoints points on the x axis
LineStores ==
  {[i \in 1..NumPoints |-> <<s[i], 0, 0>>] :
     s \in {t \in [1..NumPoints -> 0..MaxLine] :
              \A i \in 1..(NumPoints - 1) : t[i] <= t[i + 1]}}

\* the two-stage search starts from a searcher made by the default constructor
PointInit == SearcherInit(LineStores, {<<>>})

\* the query points: on the x axis, up to MaxLineCutoff off the points
QueryPoints == {<<x, 0, 0>> : x \in (-MaxLineCutoff)..(MaxLine + MaxLineCutoff)}

\* p lies in the bounding region of the grid
InRegion(g, p) == \A a \in 1..3 : g.min[a] <= p[a] /\ p[a] <= g.max[a]

\* non-periodic, or periodic in a box that holds all points
LineGeometries ==
  {[periodic |-> FALSE, box |-> <<MaxLine + 1, MaxLineCutoff, MaxLineCutoff>>],
   [periodic |-> TRUE, box |-> <<MaxLine + 1, MaxLineCutoff, MaxLineCutoff>>]}

AssignToGridStep ==
  /\ gstatus = "idle"
  /\ \E d \in 1..MaxLineCutoff, geo \in LineGeometries :
       AssignToGrid(d, AllPoints, geo.periodic, geo.box)

\* a query for a point inside the bounding region of the grid
SearchWithinPointStep ==
  \E p \in QueryPoints :
    /\ gcall.op \in {"assign", "point"}
    /\ gcall.queries < MaxQueries
    /\ InRegion(gcall.grid, p)
    /\ SearchWithinPoint(p)

PointNext == AssignToGridStep \/ SearchWithinPointStep
SpecPoint == PointInit /\ [][PointNext]_vars

\* the points of the assigned selection within the cutoff of the query point
CloseToQuery ==
  {gcall.sel[i] : i \in {k \in DOMAIN gcall.sel :
     RefClose(gcall.periodic, gcall.box, coord[gcall.sel[k] + 1], gcall.p, gcall.cutoff)}}

\* C14: after assign_to_grid(d, S, ...), search_within(p, out) returns exactly
\* the points of S whose distance to p is <= d, for every query point p inside
\* the bounding region of the grid; the cell computed for p is the cell in
\* which populate_grid would store a point located at p.
C14_PointQueryExact ==
  gcall.op = "point" =>
    /\ Elems(within_out) = CloseToQuery
    /\ query_cell(gcall.grid, gcall.p) = cell_of(gcall.grid, gcall.p)

(***************************************************************************)
(* Within search between two sets, into a vector that holds earlier        *)
(* content                                                                 *)
(***************************************************************************)
\* the content of the result vector before the call
PriorOuts == {<<>>, <<2, 0, 0>>}

SetsInit == SearcherInit(PointStores, PriorOuts)

\* the source is the whole point store, or the source and the target split
\* the point store in two
WithinSetsStep ==
  /\ gstatus = "idle"
  /\ \E d \in Cutoffs, geo \in Geometries, src \in SubSelections, target \in SubSelections,
        include_self \in BOOLEAN :
       /\ \/ src = AllPoints
          \/ /\ Elems(src) \cap Elems(target) = {}
             /\ Elems(src) \cup Elems(target) = Elems(AllPoints)
       /\ WithinSearch(d, src, target, include_self, geo.periodic, geo.box)

SetsNext == WithinSetsStep
SpecWithinSets == SetsInit /\ [][SetsNext]_vars

\* the padded bounding boxes of the source and the target of the call overlap
\* on every axis
BoxesOverlap == ~no_overlap(overlap_box(gcall.cutoff, coord, gcall.src, gcall.target))

\* out is sorted without duplicates and holds the target exactly when
\* include_self is set
SelfInclusion ==
  /\ gcall.include_self => Elems(gcall.target) \subseteq Elems(within_out)
  /\ ~gcall.include_self => Elems(gcall.target) \cap Elems(within_out) = {}
  /\ \A k \in 1..(Len(within_out) - 1) : within_out[k] < within_out[k + 1]

\* C15: after Grid_searcher(d, src, target, out, include_self, ...) every
\* index of target is in out when include_self is true and none is when it is
\* false, and out is sorted without duplicates; for every src and target, also
\* when their cutoff-padded bounding boxes do not overlap, and whatever out
\* held before the call.
C15_SelfInclusion == gcall.op = "within" => SelfInclusion

\* the same for the calls that get past the overlap test
C15_WhenOverlapping ==
  (gcall.op = "within" /\ (gcall.periodic \/ BoxesOverlap)) => SelfInclusion

(***************************************************************************)
(* Periodic searches on a frame whose box may not be periodic              *)
(***************************************************************************)
\* the box of a frame that has no periodic box
NoBox == <<0, 0, 0>>

\* Periodic_box::is_periodic
is_periodic(box) == box # NoBox

\* what a search leaves in an index list when it ran on the extents of a box
\* that is not periodic
UndefinedIndexLists == {<<>>, <<0>>}

\* a Grid_searcher entry point called with periodic = true on a frame without
\* a periodic box: no statement on its path tests the box, the grid is sized
\* from box.extents() and the search goes on
Unchecked(op, d) ==
  /\ gstatus = "idle"
  /\ gcall' = [op |-> op, cutoff |-> d, periodic |-> TRUE, box |-> NoBox]
  /\ bon' \in (IF op \in {"self", "cross"} THEN UndefinedPairLists ELSE {bon})
  /\ within_out' \in (IF op \in {"within", "eval"} THEN UndefinedIndexLists ELSE {within_out})
  /\ gstatus' = "undefined"
  /\ UNCHANGED coord
  /\ UNCHANGED tvars
  /\ UNCHANGED pvars

\* Distance_search_within_impl::setup(d, src, absolute_index, periodic)
setup(d, src, periodic, box) ==
  /\ gstatus = "idle"
  /\ IF periodic /\ ~is_periodic(box)
       THEN /\ gcall' = [op |-> "setup", cutoff |-> d, periodic |-> periodic, box |-> box]
            /\ gstatus' = "error"
       ELSE /\ gcall' = [op |-> "setup", cutoff |-> d, periodic |-> periodic, box |-> box,
                         N |-> create_grid(d, periodic, TRUE, box, coord, src).N]
            /\ gstatus' = "ok"
  /\ UNCHANGED <<coord, bon, within_out>>
  /\ UNCHANGED tvars
  /\ UNCHANGED pvars

\* the boxes of a frame: periodic or not
FrameBoxes == Boxes(RotationOf(coord)) \cup {NoBox}

SetupStep ==
  /\ gstatus = "idle"
  /\ \E d \in Cutoffs, box \in FrameBoxes, periodic \in BOOLEAN :
       setup(d, AllPoints, periodic, box)

\* Grid_searcher(d, sel, bon, absolute_index, periodic = true)
PeriodicSelfStep ==
  /\ gstatus = "idle"
  /\ \E d \in Cutoffs, box \in FrameBoxes :
       IF is_periodic(box) THEN SelfSearch(d, TRUE, box, 1) ELSE Unchecked("self", d)

\* Grid_searcher(d, sel1, sel2, bon, absolute_index, periodic = true)
PeriodicCrossStep ==
  /\ gstatus = "idle"
  /\ \E d \in Cutoffs, box \in FrameBoxes :
       IF is_periodic(box) THEN CrossSearch(d, <<0>>, <<1, 2>>, TRUE, box, 1)
       ELSE Unchecked("cross", d)

\* Grid_searcher(d, src, target, bon, include_self, absolute_index, periodic = true)
PeriodicWithinStep ==
  /\ gstatus = "idle"
  /\ \E d \in Cutoffs, box \in FrameBoxes, target \in SubSelections :
       IF is_periodic(box) THEN WithinSearch(d, AllPoints, target, FALSE, TRUE, box)
       ELSE Unchecked("within", d)

\* assign_to_grid(d, sel, absolute_index, periodic = true)
PeriodicAssignStep ==
  /\ gstatus = "idle"
  /\ \E d \in Cutoffs, box \in FrameBoxes :
       IF is_periodic(box) THEN AssignToGrid(d, AllPoints, TRUE, box)
       ELSE Unchecked("assign", d)

\* eval_node for "within d periodic of E" without a subspace: the within
\* constructor with all atoms as the source and include_self = true
PeriodicEvalStep ==
  /\ gstatus = "idle"
  /\ \E d \in Cutoffs, box \in FrameBoxes, target \in SubSelections :
       IF is_periodic(box) THEN WithinSearch(d, AllPoints, target, TRUE, TRUE, box)
       ELSE Unchecked("eval", d)

PeriodicNext ==
  \/ SetupStep
  \/ PeriodicSelfStep
  \/ PeriodicCrossStep
  \/ PeriodicWithinStep
  \/ PeriodicAssignStep
  \/ PeriodicEvalStep
SpecPeriodic == GridInit /\ [][PeriodicNext]_vars

\* C16: every periodic search entry point (Distance_search_within setup, the
\* Grid_searcher constructors, assign_to_grid, the evaluation of "within d
\* periodic of E") raises a fatal error, before producing any result, when the
\* box of the frame is not periodic.
C16_PeriodicNeedsBox ==
  (gcall.op # "none" /\ gcall.periodic /\ ~is_periodic(gcall.box)) =>
    (gstatus = "error" /\ bon = <<>> /\ within_out = <<>>)

\* the same for Distance_search_within setup alone
C16_SetupNeedsBox ==
  (gcall.op = "setup" /\ gcall.periodic /\ ~is_periodic(gcall.box)) =>
    (gstatus = "error" /\ bon = <<>> /\ within_out = <<>>)

(***************************************************************************)
(* Division in numeric expressions                                         *)
(***************************************************************************)
\* the largest number written in a division query
MaxOperand == 2

\* the operands of a division: a coordinate, an attribute or a number
DivOperands == {"x", "beta"} \cup {nat_text(n)[1] : n \in 0..MaxOperand}

operand_text(o) ==
  IF o = "x" THEN <<"x">>
  ELSE IF o = "beta" THEN <<"b", "e", "t", "a">>
  ELSE <<o>>

\* the selection string "a / b rel c"
DivText(a, b, rel, c) ==
  operand_text(a) \o <<" ", "/", " ">> \o operand_text(b) \o <<" ", rel, " ">> \o nat_text(c)

DivInputs ==
  {[a |-> a, b |-> b, rel |-> rel, c |-> c] :
     a \in DivOperands, b \in DivOperands, rel \in {"<", "="}, c \in 0..MaxOperand}

DivInit == ParserInit /\ atoms = <<Atom(<<"C", "A">>, <<"A", "L", "A">>, 1, 0, 0),
                                   Atom(<<"C", "B">>, <<"A", "L", "A">>, 1, 0, 1),
                                   Atom(<<"C", "A">>, <<"G", "L", "Y">>, 2, 1, 2)>>
                      /\ traj[2] = Mirror(traj[1])

CompileDivStep ==
  /\ pstatus = "new"
  /\ \E q \in DivInputs : CreateAst(DivText(q.a, q.b, q.rel, q.c))

DivNext == CompileDivStep \/ ApplyStep
SpecDivision == DivInit /\ [][DivNext]_vars

\* the division query that was compiled
DivQuery == CHOOSE q \in DivInputs : DivText(q.a, q.b, q.rel, q.c) = query

\* the value of an operand at atom i of the frame of the last apply call
OperandValue(o, i) ==
  IF o = "x" THEN traj[LastFrame + 1][i + 1][1]
  ELSE IF o = "beta" THEN atoms[i + 1].beta
  ELSE CHOOSE n \in 0..MaxOperand : nat_text(n) = <<o>>

\* n / d rel c for a denominator d # 0
QuotientHolds(n, d, rel, c) ==
  LET nn == IF d > 0 THEN n ELSE -n
      dd == IF d > 0 THEN d ELSE -d
  IN IF rel = "<" THEN nn < c * dd ELSE nn = c * dd

\* C17: for a numeric expression a / b evaluated at a point the value is
\* value(a) divided by value(b), and the division-by-zero error is raised
\* exactly when value(b) is zero; a zero numerator with a non-zero denominator
\* gives 0 without error.  Stated for the queries "a / b rel c" after apply.
C17_DivisionByDenominator ==
  (frames # <<>> /\ pstatus # "new") =>
    LET q == DivQuery
        all == 0..(Len(atoms) - 1)
    IN /\ pstatus = "error" <=> \E i \in all : OperandValue(q.b, i) = 0
       /\ pstatus = "applied" =>
            Elems(result) = {i \in all : QuotientHolds(OperandValue(q.a, i),
                                                       OperandValue(q.b, i), q.rel, q.c)}

\* what eval_numeric computes for a / b: value(b) / value(a), with the error
\* raised when value(a) is zero
DivisionAsCoded ==
  (frames # <<>> /\ pstatus \in {"applied", "error"}) =>
    LET q == DivQuery
        all == 0..(Len(atoms) - 1)
    IN /\ pstatus = "error" <=> \E i \in all : OperandValue(q.a, i) = 0
       /\ pstatus = "applied" =>
            Elems(result) = {i \in all : QuotientHolds(OperandValue(q.b, i),
                                                       OperandValue(q.a, i), q.rel, q.c)}

(***************************************************************************)
(* Quoted substrings in the tokenizer                                      *)
(***************************************************************************)
\* what stands before the opening quote: nothing, or text that ends with
\* whitespace or punctuation
QuotePrefixes == {<<>>, <<"n", "a", "m", "e", " ">>, <<"(">>, <<"x", " ", "o", "r", " ">>}

\* the characters between the quotes
QuoteContents == {<<"C", "A">>, <<"C", " ", "A">>, <<"C", "-", "A">>, <<"(">>}

QuoteDelims == {"\"", "'"}

\* what follows the closing quote: the end of the string, whitespace or
\* punctuation
QuoteSuffixes ==
  {<<>>, <<" ">>, <<" ", "o", "r", " ", "x">>, <<")">>, <<")", " ", "o", "r", " ", "x">>,
   <<"-", "1">>, <<">", "1">>, <<"\t", "C", "B">>}

QuoteInputs ==
  {[pre |-> pre, text |-> text, delim |-> delim, suf |-> suf] :
     pre \in QuotePrefixes, text \in QuoteContents, delim \in QuoteDelims,
     suf \in QuoteSuffixes}

QuoteText(q) == q.pre \o <<q.delim>> \o q.text \o <<q.delim>> \o q.suf

\* the same string with the quoted substring replaced by a plain word
PlainWord == <<"W">>
PlainText(q) == q.pre \o PlainWord \o q.suf

\* tokenize(s) on the parser: tokens and token_ends after the call
Tokenize(s) ==
  /\ pstatus = "new"
  /\ \E t \in {tokenize(s, token_ends)} :
       /\ tokens' = t.tokens
       /\ token_ends' = t.ends
       /\ pstatus' = IF t.st = "ok" THEN "tokenized" ELSE t.st
  /\ query' = s
  /\ UNCHANGED <<atoms, traj, tree, has_coord, is_optimized, result, error_pos, frames>>
  /\ UNCHANGED gvars

TokenizeQuotedStep ==
  /\ pstatus = "new"
  /\ \E q \in QuoteInputs : Tokenize(QuoteText(q))

SpecQuotes == ParserInit /\ [][TokenizeQuotedStep]_vars

\* the quoted input that was tokenized
QuoteQuery == CHOOSE q \in QuoteInputs : QuoteText(q) = query

\* the tokens of the plain string, with the token of the plain word replaced
\* by the token whose text is the quoted characters
QuotedTokens(q) ==
  LET plain == tokenize(PlainText(q), <<>>).tokens
      k == Len(tokenize(q.pre, <<>>).tokens) + 1
  IN [plain EXCEPT ![k] = recognize(q.text)]

\* C18: when a quoted substring is properly closed the tokenizer emits one
\* token for it whose text is the characters between the quotes, and the
\* tokens before and after it are those of the string with the quoted
\* substring replaced by a plain word, whether the closing quote is followed
\* by whitespace, by punctuation or by the end of the string.
C18_QuotedToken ==
  pstatus = "tokenized" => tokens = QuotedTokens(QuoteQuery)

\* the same when the closing quote is the last character of the string
C18_QuoteAtEnd ==
  (pstatus = "tokenized" /\ QuoteQuery.suf = <<>>) => tokens = QuotedTokens(QuoteQuery)

(***************************************************************************)
(* The language of the grammar.  Derives(rule, toks, cur) is the set of    *)
(* positions at which a derivation of rule that starts at token cur can    *)
(* end: every alternative of a rule starts at the position where the rule  *)
(* started.                                                                *)
(***************************************************************************)
RECURSIVE Derives(_, _, _)

\* one token with a code of codes
Tok(toks, cur, codes) ==
  IF cur < Len(toks) /\ toks[cur + 1].code \in codes THEN {cur + 1} ELSE {}

\* a derivation of rule, or a token, after each position of S
Then(S, rule, toks) == UNION {Derives(rule, toks, c) : c \in S}
ThenTok(S, toks, codes) == UNION {Tok(toks, c, codes) : c \in S}
Opt(S, toks, codes) == S \cup ThenTok(S, toks, codes)

RelationCodes == {"TOK_EQ", "TOK_NEQ", "TOK_LT", "TOK_GT", "TOK_LEQ", "TOK_GEQ"}

Derives(rule, toks, cur) ==
  CASE rule = "unary_minus" -> Then(Tok(toks, cur, {"TOK_MINUS"}), "num_factor", toks)
    [] rule = "num_factor" ->
         Tok(toks, cur, {"TOK_FLOAT", "TOK_INT", "TOK_X", "TOK_Y", "TOK_Z", "TOK_BETA", "TOK_OCC"})
           \cup ThenTok(Then(Tok(toks, cur, {"TOK_LPAREN"}), "num_expr", toks), toks, {"TOK_RPAREN"})
           \cup Derives("distance_rule", toks, cur)
           \cup Derives("unary_minus", toks, cur)
    [] rule = "distance_rule" ->
         LET d == Opt(Tok(toks, cur, {"TOK_DIST"}), toks, {"TOK_PERIODIC"})
             three(S) == Then(Then(Then(S, "num_factor", toks), "num_factor", toks), "num_factor", toks)
         IN three(ThenTok(d, toks, {"TOK_POINT"}))
              \cup three(three(ThenTok(d, toks, {"TOK_VECTOR", "TOK_PLANE"})))
              \cup d
    [] rule = "num_term" -> Then(Derives("num_factor", toks, cur), "num_term_more", toks)
    [] rule = "num_term_more" ->
         {cur} \cup Then(Then(Tok(toks, cur, {"TOK_MULT", "TOK_DIV"}), "num_factor", toks),
                         "num_term_more", toks)
    [] rule = "num_expr" -> Then(Derives("num_term", toks, cur), "num_expr_more", toks)
    [] rule = "num_expr_more" ->
         {cur} \cup Then(Then(Tok(toks, cur, {"TOK_PLUS", "TOK_MINUS"}), "num_term", toks),
                         "num_expr_more", toks)
    [] rule = "num_comparison" ->
         Then(ThenTok(Derives("num_expr", toks, cur), toks, RelationCodes), "num_expr", toks)
    [] rule = "logical_expr" -> Then(Derives("logical_operand", toks, cur), "logical_expr_more", toks)
    [] rule = "logical_expr_more" ->
         {cur} \cup Then(Then(Tok(toks, cur, {"TOK_OR", "TOK_AND"}), "logical_operand", toks),
                         "logical_expr_more", toks)
    [] rule = "logical_not" -> Then(Tok(toks, cur, {"TOK_NOT"}), "logical_operand", toks)
    [] rule = "within_rule" ->
         Then(ThenTok(Opt(ThenTok(Tok(toks, cur, {"TOK_WITHIN"}), toks, {"TOK_FLOAT", "TOK_INT"}),
                          toks, {"TOK_PERIODIC"}),
                      toks, {"TOK_OF"}),
              "logical_operand", toks)
    [] rule = "by_residue" ->
         Then(ThenTok(Tok(toks, cur, {"TOK_BY"}), toks, {"TOK_RESIDUE"}), "logical_operand", toks)
    [] rule = "keyword_text_list" ->
         Then(ThenTok(Tok(toks, cur, {"TOK_NAME", "TOK_RESNAME", "TOK_TAG", "TOK_CHAIN"}),
                      toks, {"TOK_STR", "TOK_REGEX"}),
              "text_more", toks)
    [] rule = "text_more" ->
         {cur} \cup Then(Tok(toks, cur, {"TOK_STR", "TOK_REGEX"}), "text_more", toks)
    [] rule = "int_or_range" ->
         Tok(toks, cur, {"TOK_INT"})
           \cup ThenTok(ThenTok(Tok(toks, cur, {"TOK_INT"}), toks, {"TOK_TO", "TOK_MINUS"}),
                        toks, {"TOK_INT"})
    [] rule = "keyword_int_list" ->
         Then(Then(Tok(toks, cur, {"TOK_RESID", "TOK_RESINDEX", "TOK_INDEX"}), "int_or_range", toks),
              "int_more", toks)
    [] rule = "int_more" -> {cur} \cup Then(Derives("int_or_range", toks, cur), "int_more", toks)
    [] rule = "logical_operand" ->
         ThenTok(Then(Tok(toks, cur, {"TOK_LPAREN"}), "logical_expr", toks), toks, {"TOK_RPAREN"})
           \cup Derives("num_comparison", toks, cur)
           \cup Tok(toks, cur, {"TOK_ALL"})
           \cup Derives("logical_not", toks, cur)
           \cup Derives("within_rule", toks, cur)
           \cup Derives("by_residue", toks, cur)
           \cup Derives("keyword_text_list", toks, cur)
           \cup Derives("keyword_int_list", toks, cur)

\* the grammar derives the whole token sequence of sel_str
Derivable(sel_str) ==
  \E t \in {tokenize(sel_str, <<>>)} :
    t.st = "ok" /\ Len(t.tokens) \in Derives("logical_expr", t.tokens, 0)

\* numeric expressions, some of them in parentheses
NumTexts ==
  {<<"x">>,
   <<"1">>,
   <<"(", "x", " ", "+", " ", "1", ")">>,
   <<"x", " ", "+", " ", "1">>,
   <<"(", "x", ")">>,
   <<"-", "x">>,
   <<"(", "x", " ", "+", " ", "1", ")", " ", "*", " ", "2">>,
   <<"2", " ", "*", " ", "(", "x", " ", "+", " ", "1", ")">>}

\* what follows the comparison
LogicalTails ==
  {<<>>,
   <<" ", "a", "n", "d", " ", "n", "a", "m", "e", " ", "C", "A">>,
   <<" ", "o", "r", " ", "a", "l", "l">>}

\* the comparison bare, in parentheses, or negated
LogicalForms == {"bare", "paren", "not"}

GrammarInputs ==
  {[l |-> l, r |-> r, form |-> form, more |-> more] :
     l \in NumTexts, r \in NumTexts, form \in LogicalForms, more \in LogicalTails}

GrammarText(q) ==
  LET cmp == q.l \o <<" ", ">", " ">> \o q.r
  IN (IF q.form = "paren" THEN <<"(">> \o cmp \o <<")">>
      ELSE IF q.form = "not" THEN <<"n", "o", "t", " ">> \o cmp
      ELSE cmp) \o q.more

CompileGrammarStep ==
  /\ pstatus = "new"
  /\ \E q \in GrammarInputs : CreateAst(GrammarText(q))

SpecGrammar == DivInit /\ [][CompileGrammarStep]_vars

\* C19: create_ast accepts every token sequence that the grammar derives; an
\* alternative that fails after consuming tokens does not prevent a later
\* alternative from matching where the failed one started, so that
\* (x + 1) > 2 and (x > 1) and name CA compile without a syntax error.
C19_AcceptsDerivable ==
  (pstatus # "new" /\ Derivable(query)) => pstatus = "compiled"

\* a parenthesized logical expression compiles
C19_ParenthesizedLogical ==
  (pstatus # "new" /\ \E q \in GrammarInputs :
                        /\ query = GrammarText(q)
                        /\ q.l \in {<<"x">>, <<"1">>}
                        /\ q.form = "paren")
    => pstatus = "compiled"

(***************************************************************************)
(* Grid sizing.  Lengths are in units of which the cutoff is a multiple,   *)
(* so that extent / cutoff takes values below 1, between 1 and 2 and above *)
(* 2, whole and fractional.                                                *)
(***************************************************************************)
MaxExtent == 12
MaxSizeCutoff == 3
MaxAtoms == 300

\* the point counts handed to set_grid_size
AtomCounts == {0, 1, 3, MaxAtoms}

\* a searcher made by the default constructor; set_grid_size reads no
\* coordinates
SizeInit == SearcherInit({<<>>}, {<<>>})

\* set_grid_size(min, max, Natoms, box) on a searcher with the given cutoff
SetGridSize(d, min, max, Natoms) ==
  /\ gstatus = "idle"
  /\ gcall' = [op |-> "set_grid_size", cutoff |-> d, min |-> min, max |-> max,
               Natoms |-> Natoms, N |-> set_grid_size(min, max, Natoms, d)]
  /\ UNCHANGED <<coord, bon, within_out, gstatus>>
  /\ UNCHANGED tvars
  /\ UNCHANGED pvars

\* the grid of a search is sized once
SetGridSizeStep ==
  /\ gcall = NoCall
  /\ \E d \in 1..MaxSizeCutoff, Natoms \in AtomCounts,
        min \in {<<0, 0, 0>>, <<-1, -1, -1>>},
        ext \in (1..MaxExtent) \X (1..MaxExtent) \X (1..MaxExtent) :
       SetGridSize(d, min, [a \in 1..3 |-> min[a] + ext[a]], Natoms)

SpecGridSize == SizeInit /\ [][SetGridSizeStep]_vars

\* the cell counts before the two adjustments: the cube-root formula, 0
\* replaced by 1
first_grid_size(min, max, Natoms) ==
  LET e == [a \in 1..3 |-> max[a] - min[a]]
      n0(a, b, c) == LET v == cbrt_floor(Natoms * e[a] * e[a], e[b] * e[c], 0)
                     IN IF v = 0 THEN 1 ELSE v
  IN <<n0(1, 2, 3), n0(2, 1, 3), n0(3, 1, 2)>>

\* C20: on return of set_grid_size for an orthogonal box, positive extents
\* and cutoff > 0, every axis has a cell count >= 1 and a cell width
\* (extent / count) of at most 2 * cutoff, and on every axis the cell width
\* is at least cutoff or the cell count is 1.
C20_CellWidth ==
  gcall.op = "set_grid_size" =>
    \A a \in 1..3 :
      LET ext == gcall.max[a] - gcall.min[a]
          n == gcall.N[a]
      IN /\ n >= 1
         /\ ext <= 2 * gcall.cutoff * n
         /\ ext >= gcall.cutoff * n \/ n = 1

\* a call in which one axis lost cells and kept more than one, and one axis
\* is shorter than the cutoff
C20_Witness ==
  /\ gcall.op = "set_grid_size"
  /\ LET n0 == first_grid_size(gcall.min, gcall.max, gcall.Natoms)
     IN /\ \E a \in 1..3 : 1 < gcall.N[a] /\ gcall.N[a] < n0[a]
        /\ \E a \in 1..3 : gcall.max[a] - gcall.min[a] < gcall.cutoff

\* a call in which one axis gained cells
SizeIncreased ==
  /\ gcall.op = "set_grid_size"
  /\ \E a \in 1..3 : gcall.N[a] > first_grid_size(gcall.min, gcall.max, gcall.Natoms)[a]

(***************************************************************************)
(* Neighbour lists of the cells of a grid                                  *)
(***************************************************************************)
\* the largest cell count of an axis
MaxGrid == 4

\* get_nlist(i, j, k) on a searcher whose grid has N cells
GetNlist(N, periodic, c) ==
  /\ gcall' = [op |-> "get_nlist", N |-> N, periodic |-> periodic, cell |-> c,
               nlist |-> get_nlist([is_periodic |-> periodic, N |-> N], c)]
  /\ UNCHANGED <<coord, bon, within_out, gstatus>>
  /\ UNCHANGED tvars
  /\ UNCHANGED pvars

\* one cell of one grid is asked for
GetNlistStep ==
  /\ gcall = NoCall
  /\ \E N \in (1..MaxGrid) \X (1..MaxGrid) \X (1..MaxGrid), periodic \in BOOLEAN :
       \E c \in Elems(CellSeq(N)) : GetNlist(N, periodic, c)

SpecNlist == SizeInit /\ [][GetNlistStep]_vars

\* the cells next to c: every coordinate differs by at most 1, modulo the grid
\* size in periodic mode
AdjacentCells(N, periodic, c) ==
  {x \in Elems(CellSeq(N)) :
     /\ x # c
     /\ \A a \in 1..3 :
          IF periodic
            THEN (x[a] - c[a]) % N[a] \in {0, 1 % N[a], (N[a] - 1) % N[a]}
            ELSE x[a] - c[a] \in {-1, 0, 1}}

\* C21: for every grid size and every cell c the neighbour list equals the
\* set of in-range cells other than c whose coordinates differ from c's by at
\* most 1 on every axis (modulo the grid size in periodic mode, clipped in
\* non-periodic mode), each listed exactly once, also when an axis has 1 or 2
\* cells.
C21_NeighbourList ==
  gcall.op = "get_nlist" =>
    /\ Elems(gcall.nlist) = AdjacentCells(gcall.N, gcall.periodic, gcall.cell)
    /\ Len(gcall.nlist) = Cardinality(Elems(gcall.nlist))
    /\ gcall.cell \notin Elems(gcall.nlist)

\* a periodic grid with an axis of one cell, an axis of two and an axis of
\* more than two
C21_Witness ==
  /\ gcall.op = "get_nlist"
  /\ gcall.periodic
  /\ \E a, b, c \in 1..3 : gcall.N[a] = 1 /\ gcall.N[b] = 2 /\ gcall.N[c] > 2
  /\ Len(gcall.nlist) = 5

(***************************************************************************)
(* Precomputed nodes under a subspace                                      *)
(***************************************************************************)
\* pure queries: do_optimization freezes their node
FrozenQueries ==
  {<<"n", "a", "m", "e", " ", "C", "B", " ", "C", "A">>,
   <<"n", "a", "m", "e", " ", "C", "A", " ", "C", "B">>,
   <<"n", "a", "m", "e", " ", "C", "A">>,
   <<"r", "e", "s", "n", "a", "m", "e", " ", "G", "L", "Y", " ", "A", "L", "A">>,
   <<"r", "e", "s", "i", "d", " ", "2", " ", "1">>,
   <<"i", "n", "d", "e", "x", " ", "2", " ", "0">>,
   <<"r", "e", "s", "i", "n", "d", "e", "x", " ", "0", "-", "1">>,
   <<"a", "l", "l">>}

\* the sorted subspaces of a system of three points
SortedSubspaces ==
  {Subspace(SelectSeq(<<0, 1, 2>>, LAMBDA i : i \in s)) : s \in SUBSET {0, 1, 2}}

\* do_optimization on the node of a pure query, then eval_node on the frozen
\* node under the subspace
EvalFrozen(sel_str, subspace, fr) ==
  /\ pstatus = "new"
  /\ \E c \in {create_ast(Parser, sel_str)} :
       /\ c.st = "ok"
       /\ \E o \in {do_optimization(System(fr), c.p.tree)} :
            /\ o.st = "ok"
            /\ tree' = o.node
            /\ \E r \in {eval_node(System(fr), o.node, subspace)} :
                 /\ result' = r.res
                 /\ pstatus' = IF r.st = "ok" THEN "evaluated" ELSE r.st
       /\ has_coord' = c.p.has_coord
  /\ query' = sel_str
  /\ gcall' = [op |-> "eval_node", subspace |-> subspace]
  /\ frames' = Append(frames, fr)
  /\ UNCHANGED <<atoms, traj, tokens, token_ends, is_optimized, error_pos>>
  /\ UNCHANGED <<coord, bon, within_out, gstatus>>
  /\ UNCHANGED tvars

EvalFrozenStep ==
  /\ pstatus = "new"
  /\ \E q \in FrozenQueries, s \in SortedSubspaces \cup {NoSubspace} : EvalFrozen(q, s, 0)

SpecFrozen == DivInit /\ [][EvalFrozenStep]_vars

\* C22: for every precomputed node and every sorted subspace S, evaluating
\* the node under S returns the intersection of the stored index set with S,
\* and evaluating it without a subspace returns the stored set, whatever
\* keyword produced the stored list (also a list stored item by item, as for
\* name CB CA).
C22_FrozenIntersection ==
  (gcall.op = "eval_node" /\ pstatus = "evaluated") =>
    /\ tree.code = "TOK_PRECOMPUTED"
    /\ Elems(result) =
         IF gcall.subspace.has THEN Elems(tree.precomputed) \cap Elems(gcall.subspace.idx)
         ELSE Elems(tree.precomputed)

\* the same for the nodes whose stored list is in ascending order
C22_AscendingStored ==
  (gcall.op = "eval_node" /\ pstatus = "evaluated"
     /\ \A i \in 1..(Len(tree.precomputed) - 1) : tree.precomputed[i] <= tree.precomputed[i + 1]) =>
    Elems(result) =
      IF gcall.subspace.has THEN Elems(tree.precomputed) \cap Elems(gcall.subspace.idx)
      ELSE Elems(tree.precomputed)

(***************************************************************************)
(* A parser object that compiles more than one query.  frames holds the    *)
(* apply calls since the last create_ast.                                  *)
(***************************************************************************)
\* the most entries token_ends may hold when create_ast is called again
MaxStaleEnds == 4

\* a coordinate-dependent query, a pure one and two with a syntax error
ReuseQueries ==
  {<<"x", " ", ">", " ", "0">>,
   <<"n", "a", "m", "e", " ", "C", "A">>,
   <<"n", "a", "m", "e", " ", "C", "A", " ", ")">>,
   <<"r", "e", "s", "n", "a", "m", "e", " ", "A", "L", "A", " ", "G", "L", "Y", " ", ")">>}

\* create_ast on a parser that compiled, or failed to compile, a query before
CreateAstAgain(sel_str) ==
  /\ pstatus \in {"compiled", "applied", "syntax_error"}
  /\ Len(token_ends) <= MaxStaleEnds
  /\ \E c \in {create_ast(Parser, sel_str)} :
       /\ query' = sel_str
       /\ tokens' = c.p.tokens
       /\ token_ends' = c.p.token_ends
       /\ tree' = c.p.tree
       /\ has_coord' = c.p.has_coord
       /\ is_optimized' = c.p.is_optimized
       /\ pstatus' = IF c.st = "ok" THEN "compiled" ELSE c.st
       /\ error_pos' = IF c.st = "syntax_error" THEN c.p.token_ends[c.pos + 1] ELSE 0
  /\ frames' = <<>>
  /\ UNCHANGED <<atoms, traj, result>>
  /\ UNCHANGED gvars

CreateFirstStep ==
  /\ pstatus = "new"
  /\ \E q \in ReuseQueries : CreateAst(q)

CreateAstAgainStep ==
  /\ pstatus \in {"compiled", "applied", "syntax_error"}
  /\ \E q \in ReuseQueries : CreateAstAgain(q)

ReuseNext == CreateFirstStep \/ CreateAstAgainStep \/ ApplyStep
SpecReuse == DivInit /\ [][ReuseNext]_vars

\* the step is an apply call
IsApply == Len(frames') = Len(frames) + 1

\* the query as a fresh parser compiles it
FreshAst(sel_str) == create_ast(FreshParser, sel_str)

\* the query contains a coordinate-dependent node
CoordinateDependent(sel_str) == ~is_node_pure(FreshAst(sel_str).p.tree)

\* C23: over the apply calls that follow one create_ast the optimization pass
\* runs at most once, during the first apply, and never when the query has no
\* coordinate-dependent node; once is_optimized is true it stays true until
\* the next create_ast.
C23_OptimizedOnce ==
  [][/\ (IsApply /\ needs_optimization(Parser)) =>
          (frames = <<>> /\ CoordinateDependent(query))
     /\ (IsApply /\ is_optimized) => is_optimized']_vars

\* the same for the first query a parser object compiles
C23_FirstQuery ==
  [][(IsApply /\ query' = query /\ has_coord = CoordinateDependent(query)) =>
       /\ needs_optimization(Parser) => (frames = <<>> /\ CoordinateDependent(query))
       /\ is_optimized => is_optimized']_vars

\* C29: the outcome of create_ast(q) depends only on q and not on earlier
\* create_ast calls on the object: has_coord is true afterwards exactly when
\* q contains a coordinate-dependent node, and the position reported in a
\* syntax error refers to the tokens of q.
C29_DependsOnQueryOnly ==
  (pstatus \in {"compiled", "applied", "syntax_error"}) =>
    LET f == FreshAst(query)
    IN /\ (pstatus = "syntax_error") <=> (f.st = "syntax_error")
       /\ pstatus # "syntax_error" => has_coord = CoordinateDependent(query)
       /\ pstatus = "syntax_error" => error_pos = f.p.token_ends[f.pos + 1]

\* the position of a syntax error is a token end of the query
C29_StalePosition ==
  pstatus = "syntax_error" =>
    error_pos = FreshAst(query).p.token_ends[FreshAst(query).pos + 1]

\* has_coord is what the query gives
C29_CoordFlag ==
  pstatus \in {"compiled", "applied"} => has_coord = CoordinateDependent(query)

(***************************************************************************)
(* Repeated searches on one assigned grid                                  *)
(***************************************************************************)
\* search_within(target, bon, include_self) on the grid of assign_to_grid;
\* before is what the call found in place: the last operation and the
\* content of bon
SearchWithinTarget(target, include_self) ==
  /\ gstatus = "ok"
  /\ gcall.op \in {"assign", "point", "target"}
  /\ \E r \in {search_within_target(gcall.grid, coord, gcall.sel, gcall.grid1, target,
                                    include_self)} :
       /\ gcall' = [op |-> "target", cutoff |-> gcall.cutoff, periodic |-> gcall.periodic,
                    box |-> gcall.box, sel |-> gcall.sel, grid |-> gcall.grid,
                    grid1 |-> r.grid1, p |-> <<>>, queries |-> gcall.queries + 1,
                    target |-> target, include_self |-> include_self,
                    before |-> [op |-> gcall.op, out |-> within_out]]
       /\ within_out' = r.bon
  /\ UNCHANGED <<coord, bon, gstatus>>
  /\ UNCHANGED tvars
  /\ UNCHANGED pvars

\* the point stores of the repeated searches: the first point at the origin,
\* the others at even coordinates
RepeatStores == {s \in LineStores : s[1][1] = 0 /\ \A i \in DOMAIN s : s[i][1] % 2 = 0}

RepeatInit == SearcherInit(RepeatStores, {<<>>})

SearchWithinTargetStep ==
  /\ gcall.op \in {"assign", "point", "target"}
  /\ gcall.queries < MaxQueries
  /\ \E target \in SubSelections, include_self \in BOOLEAN :
       SearchWithinTarget(target, include_self)

\* a query for one of the two ends of the line
SearchWithinEndStep ==
  /\ gcall.op \in {"assign", "point", "target"}
  /\ gcall.queries < MaxQueries
  /\ \E p \in {<<0, 0, 0>>, <<MaxLine - 1, 0, 0>>} :
       InRegion(gcall.grid, p) /\ SearchWithinPoint(p)

RepeatNext == AssignToGridStep \/ SearchWithinTargetStep \/ SearchWithinEndStep
SpecRepeated == RepeatInit /\ [][RepeatNext]_vars

\* the grid as assign_to_grid populated it
AssignedGrid == populate_grid(gcall.grid, coord, gcall.sel)

\* C24: after assign_to_grid any sequence of search_within(target) and
\* search_within(point) calls leaves the contents of the source grid
\* unchanged: the marking of the points found is undone before search_within
\* returns, so that a call returns what it returns as the first call on the
\* grid, whatever calls were made before it.
C24_GridUnchanged ==
  gcall.op \in {"assign", "point", "target"} =>
    /\ gcall.grid1 = AssignedGrid
    /\ gcall.op = "target" =>
         within_out = search_within_target(gcall.grid, coord, gcall.sel, AssignedGrid,
                                           gcall.target, gcall.include_self).bon
    /\ gcall.op = "point" =>
         within_out = search_within_point(gcall.grid, coord, gcall.sel, AssignedGrid, gcall.p)

\* a second search for a target, after a search for another target that found
\* and marked a point which the second search finds again
C24_Witness ==
  /\ gcall.op = "target" /\ gcall.queries = 2
  /\ gcall.before.op = "target"
  /\ ~gcall.include_self
  /\ gcall.before.out # within_out
  /\ \E i \in Elems(within_out) \cap Elems(gcall.before.out) : i > 0

(***************************************************************************)
(* What the optimization pass freezes                                      *)
(***************************************************************************)
\* the nodes whose children eval_numeric reads: comparisons, arithmetic and
\* the dist nodes (their last child is the periodicity flag)
NumericReaders ==
  RelationCodes \cup {"TOK_PLUS", "TOK_MINUS", "TOK_MULT", "TOK_DIV", "TOK_UNARY_MINUS",
                      "TOK_POINT", "TOK_VECTOR", "TOK_PLANE"}

IsFrozen(child) == IsNode(child) /\ child.code = "TOK_PRECOMPUTED"

RECURSIVE HasFrozenOperand(_)
\* some numeric operand or periodicity flag below node is a precomputed node
HasFrozenOperand(node) ==
  \/ node.code \in NumericReaders /\ \E i \in DOMAIN node.children : IsFrozen(node.children[i])
  \/ node.code = "TOK_WITHIN" /\ Len(node.children) = 3 /\ IsFrozen(node.children[3])
  \/ \E i \in DOMAIN node.children :
       IsNode(node.children[i]) /\ HasFrozenOperand(node.children[i])

\* C25: after the optimization pass no node that the evaluator reads as a
\* numeric expression and no periodicity flag of a within or dist node has
\* been replaced by a precomputed node: only nodes that denote point sets are
\* frozen.
C25_NumericOperandsKept ==
  (frames # <<>> /\ has_coord /\ is_optimized) => ~HasFrozenOperand(tree)

\* after the pass a frozen node is never the whole tree of a
\* coordinate-dependent query
C25_RootKept ==
  (frames # <<>> /\ has_coord /\ is_optimized) => tree.code # "TOK_PRECOMPUTED"

(***************************************************************************)
(* Empty and whitespace-only queries                                       *)
(***************************************************************************)
BlankQueries == {<<>>, <<" ">>, <<" ", "\t", " ">>}

\* the blank queries and two that compile
BlankOrNot == BlankQueries \cup {<<"n", "a", "m", "e", " ", "C", "A">>, <<"x", " ", ">", " ", "0">>}

CompileBlankStep ==
  /\ pstatus = "new"
  /\ \E q \in BlankOrNot : CreateAst(q)

CompileBlankAgainStep ==
  /\ pstatus \in {"compiled", "applied", "syntax_error"}
  /\ \E q \in BlankOrNot : CreateAstAgain(q)

BlankNext == CompileBlankStep \/ CompileBlankAgainStep \/ ApplyStep
SpecBlank == DivInit /\ [][BlankNext]_vars

\* C26: create_ast on an empty or whitespace-only query raises a syntax
\* error; after every create_ast call that returns without an error the root
\* of the tree is not null.
C26_BlankRejected ==
  /\ (pstatus # "new" /\ query \in BlankQueries) => pstatus = "syntax_error"
  /\ pstatus \in {"compiled", "applied"} => tree # NullNode

\* a call that returns without an error leaves a tree
C26_TreeAfterReturn ==
  pstatus \in {"compiled", "applied"} => tree # NullNode

\* no blank query ends in a syntax error
C26_NeverRejected ==
  (pstatus # "new" /\ query \in BlankQueries) => pstatus # "syntax_error"

(***************************************************************************)
(* Quotes without a closing quote in the tokenizer                         *)
(***************************************************************************)
\* how the quoted substring ends: with the quote that opened it, with the
\* other quote character, or not at all
QuoteClosings == {"same", "other", "none"}

OtherDelim(delim) == CHOOSE d \in QuoteDelims : d # delim

UnclosedInputs ==
  {[pre |-> q.pre, text |-> q.text, delim |-> q.delim, suf |-> q.suf, close |-> close] :
     q \in QuoteInputs, close \in QuoteClosings}

UnclosedText(q) ==
  q.pre \o <<q.delim>> \o q.text
        \o (CASE q.close = "same" -> <<q.delim>>
              [] q.close = "other" -> <<OtherDelim(q.delim)>>
              [] q.close = "none" -> <<>>)
        \o q.suf

TokenizeUnclosedStep ==
  /\ pstatus = "new"
  /\ \E q \in UnclosedInputs : Tokenize(UnclosedText(q))

SpecUnclosed == DivInit /\ [][TokenizeUnclosedStep]_vars

\* C27: tokenize terminates on every input string and never reads a
\* character at or beyond the end of the string, also when the string has an
\* opening quote with no matching closing quote: every call ends with the
\* tokens of the string.
C27_TokenizeInBounds ==
  pstatus # "new" => pstatus = "tokenized"

\* the same for the strings whose quote is closed by the same quote character
C27_ClosedInBounds ==
  (pstatus # "new" /\ query \in {QuoteText(q) : q \in QuoteInputs}) => pstatus = "tokenized"

\* a string whose opening quote has no matching closing quote never ends with tokens
C27_UnclosedRunsPast ==
  (pstatus # "new" /\ query \notin {QuoteText(q) : q \in QuoteInputs}) => pstatus = "undefined"

(***************************************************************************)
(* The loops of set_grid_size, one iteration at a time.  The cell counts   *)
(* are int: IntBits is the width of int in the model, and ++Ngrid at the   *)
(* largest int is a signed overflow, which is undefined: the count wraps   *)
(* to the smallest int, or the loop is compiled as one that never exits    *)
(* (its test can only fail after an overflow).                             *)
(***************************************************************************)
IntBits == 5
MaxSizingExtent == 4
MaxSizingCutoff == 2
MaxSizingAtoms == 20

INT_MAX == 2 ^ (IntBits - 1) - 1
INT_MIN == -(2 ^ (IntBits - 1))

\* the point counts handed to set_grid_size by a search: at least one point
SizingAtoms == {1, 3, MaxSizingAtoms}

\* the cutoffs of within_rule: a FLOAT or INT token, which has no sign
SizingCutoffs == 0..MaxSizingCutoff

\* the position in set_grid_size, "none" outside it
SizingPc == IF gcall.op = "sizing" THEN gcall.pc ELSE "none"

Sizing(c) ==
  /\ gcall' = c
  /\ UNCHANGED <<coord, bon, within_out, gstatus>>
  /\ UNCHANGED tvars
  /\ UNCHANGED pvars

\* the loop of the next axis, or the position after the loop of the last axis
NextLoop(c, after) ==
  IF c.axis < 3 THEN [c EXCEPT !.axis = @ + 1] ELSE [c EXCEPT !.pc = after, !.axis = 1]

\* entry of set_grid_size up to the first loop: the cube-root formula
SizingStartStep ==
  /\ gcall = NoCall
  /\ gstatus = "idle"
  /\ \E d \in SizingCutoffs, Natoms \in SizingAtoms,
        ext \in (1..MaxSizingExtent) \X (1..MaxSizingExtent) \X (1..MaxSizingExtent) :
       Sizing([op |-> "sizing", pc |-> "decrease", axis |-> 1, cutoff |-> d,
               ext |-> ext, Natoms |-> Natoms,
               N |-> first_grid_size(<<0, 0, 0>>, ext, Natoms)])

\* one test of while(box_to_lab(d) < cutoff && Ngrid > 1) and its body
DecreaseStep ==
  /\ SizingPc = "decrease"
  /\ LET a == gcall.axis
         n == gcall.N[a]
     IN IF box_to_lab(gcall.ext[a]) < gcall.cutoff * n /\ n > 1
          THEN Sizing([gcall EXCEPT !.N[a] = n - 1])
          ELSE Sizing(NextLoop(gcall, "increase"))

\* the test of while(box_to_lab(d) > 2*cutoff) with d = ext / Ngrid: d is
\* negative for a negative count
IncreaseTest(c) ==
  /\ c.N[c.axis] > 0
  /\ box_to_lab(c.ext[c.axis]) > 2 * c.cutoff * c.N[c.axis]

\* one test of the increase loop and its body ++Ngrid below the largest int
IncreaseStep ==
  /\ SizingPc = "increase"
  /\ LET a == gcall.axis
     IN IF IncreaseTest(gcall)
          THEN /\ gcall.N[a] < INT_MAX
               /\ Sizing([gcall EXCEPT !.N[a] = @ + 1])
          ELSE Sizing(NextLoop(gcall, "done"))

\* ++Ngrid at the largest int
OverflowStep ==
  /\ SizingPc = "increase"
  /\ IncreaseTest(gcall)
  /\ gcall.N[gcall.axis] = INT_MAX
  /\ \/ Sizing([gcall EXCEPT !.N[gcall.axis] = INT_MIN])
     \/ Sizing([gcall EXCEPT !.N[gcall.axis] = INT_MIN, !.pc = "diverged"])

\* one iteration of the increase loop compiled without its test: ++Ngrid,
\* with the wrap of the machine
DivergedStep ==
  /\ SizingPc = "diverged"
  /\ Sizing([gcall EXCEPT !.N[gcall.axis] = IF @ = INT_MAX THEN INT_MIN ELSE @ + 1])

SizingNext ==
  SizingStartStep \/ DecreaseStep \/ IncreaseStep \/ OverflowStep \/ DivergedStep

\* a call of set_grid_size that runs: every step that can be taken is taken
SpecSizing == SizeInit /\ [][SizingNext]_vars /\ WF_vars(SizingNext)

\* C28: set_grid_size terminates for all positive extents, every point
\* count >= 1 and every cutoff of the within grammar, a cutoff of 0
\* included: the loop that decreases and the loop that increases the cell
\* counts stop after finitely many steps.
C28_Terminates == (SizingPc = "decrease") ~> (SizingPc = "done")

\* the loops that decrease the cell counts stop
C28_DecreaseStops == (SizingPc = "decrease") ~> (SizingPc # "decrease")

\* with a cutoff above 0 set_grid_size returns
C28_PositiveCutoffReturns ==
  (SizingPc = "decrease" /\ gcall.cutoff > 0) ~> (SizingPc = "done")

\* with a cutoff above 0 no cell count reaches the largest int
C28_PositiveCutoffInRange ==
  (SizingPc # "none" /\ gcall.cutoff > 0) => \A a \in 1..3 : gcall.N[a] \in 1..(INT_MAX - 1)

\* with a cutoff of 0 set_grid_size returns only after an overflow of every
\* cell count
C28_ZeroCutoffOverflows ==
  (SizingPc = "done" /\ gcall.cutoff = 0) => \A a \in 1..3 : gcall.N[a] = INT_MIN

(***************************************************************************)
(* Cross search between two sets that are far apart                        *)
(***************************************************************************)
\* the call was a non-periodic cross search between two sets whose padded
\* bounding boxes do not overlap on some axis
FarApart ==
  /\ gcall.op = "cross"
  /\ ~gcall.periodic
  /\ no_overlap(overlap_box(gcall.cutoff, coord, gcall.sel1, gcall.sel2))

\* C30: a non-periodic cross search between two sets whose cutoff-padded
\* bounding boxes do not overlap on some axis returns an empty pair list,
\* without populating or scanning a grid whose dimensions were never set.
C30_FarApartEmpty ==
  FarApart => (gstatus = "ok" /\ bon = <<>>)

\* no pair of such a search is within the cutoff: the empty list is the
\* answer the search owes
C30_FarApartNoPair ==
  FarApart =>
    \A i \in Elems(gcall.sel1), j \in Elems(gcall.sel2) :
      squaredNorm(coord[i + 1], coord[j + 1]) > gcall.cutoff * gcall.cutoff

\* such a search always goes on with grid dimensions that were never set
C30_FarApartUnsized ==
  FarApart => gstatus = "undefined"

====
